---- MODULE Spec2Model ----
(***************************************************************************)
(* The scrape orchestration controller of the TikTok order exporter: the   *)
(* background service worker of src/unnamed/part_002 (lines 1-1170).       *)
(*                                                                         *)
(* JavaScript runs one handler at a time.  A handler gives up control only *)
(* where it awaits real I/O (chrome.storage, chrome.tabs, sleep) or when   *)
(* it returns; an await of an async function that performed no I/O resumes *)
(* in a microtask, before any other event.  So every action below is one   *)
(* run of a handler, timer callback or continuation from where it resumes  *)
(* to where it next suspends.  What is pending (timers, suspended          *)
(* continuations, tab load events, requests delivered to the in-page       *)
(* delegate) is the bag `tasks`.  chrome.storage operations of one worker  *)
(* are served in the order issued, so a read or write takes effect where   *)
(* it is issued and the awaiting code resumes in a later step.             *)
(***************************************************************************)
EXTENDS Integers, Sequences, FiniteSets, Bags, TLC

\* ---- bounds of the model
MaxIds == 3        \* order ids, and the longest work list of the scripted delegate
MaxList == 1       \* the longest work list of the unscripted delegate
MaxPage == 2       \* the last page a run may ask for
MaxCmds == 3       \* user commands and worker restarts in a behaviour of Spec
MaxFaultCmds == 2  \* the same in a behaviour of SpecFaults
MaxFaults == 1     \* environment faults in a behaviour of SpecFaults

\* ---- program constants
MAX_RETRIES == 3
Null == 0

Ids == 1..MaxIds
Pages == 1..MaxPage

VARIABLES
  state,              \* the `state` object
  collectCalled,      \* let collectCalled
  orderWatchdogTimer, \* let orderWatchdogTimer: Null, or the order id its pending callback closed over
  storage,            \* chrome.storage.local: sessionState, exportedOrders and exportHistory
  tasks,              \* bag of pending timers, continuations, tab events and delegate requests
  nextTab,            \* the id chrome.tabs.create gives the next tab
  eff,                \* what the last step issued, in order (navigations, dispatches, writes, broadcasts)
  last,               \* the handler the last step ran
  cmds,               \* user commands and worker restarts still allowed
  faults,             \* environment faults still allowed: a rejected chrome.tabs call, a
                      \* delegate that never answers, a watchdog that expires
  script,             \* the scenario: the Accumulated Results at the start and, for the scripted
                      \* delegate, per id the transient failures before its final answer
  attempts,           \* scripted delegate: answers given so far per id
  stops,              \* Stop commands handled in a row
  interrupted,        \* the checkpointed fields of `state` as a worker restart found them mid-page
  asked,              \* the last page the run in `state` sent COLLECT_ORDER_IDS for, Null if none
  fatal,              \* the run in `state` was stopped by the catch of collectOrderIds
  now                 \* Date.now(), counted in history records created

vars == <<state, collectCalled, orderWatchdogTimer, storage, tasks, nextTab, eff, last, cmds, faults,
          script, attempts, stops, interrupted, asked, fatal, now>>

\* ---- small helpers

\* array.includes
Includes(seq, x) == \E i \in 1..Len(seq) : seq[i] = x

\* array.filter
RECURSIVE Filter(_, _)
Filter(seq, bad) ==
  IF seq = <<>> THEN <<>>
  ELSE IF Includes(bad, Head(seq)) THEN Filter(Tail(seq), bad)
       ELSE <<Head(seq)>> \o Filter(Tail(seq), bad)

\* a pending task: its kind and what its closure captured: a number (order id, tab
\* id, page or delay), a second number, a string (url kind or caller), an array
\* read from storage, and a sessionState read from storage
Task(k, id, u, snap) == [k |-> k, id |-> id, pg |-> Null, u |-> u, snap |-> snap, sess |-> <<>>]
T0(k) == Task(k, Null, "", <<>>)

Spawn(w, t) == [w EXCEPT !.tasks = @ (+) SetToBag({t})]

\* an effect issued to the outside: kind, url kind or message, order id or page
Emit(w, k, u, id) == [w EXCEPT !.eff = Append(@, [k |-> k, u |-> u, id |-> id])]

\* the `state` object as the script is loaded
InitialState ==
  [isRunning |-> FALSE, shouldStop |-> FALSE, isPaused |-> FALSE,
   currentTabId |-> Null, startPage |-> Null, endPage |-> Null, currentPage |-> Null,
   orderIds |-> <<>>, collectedData |-> <<>>, existingOrderIds |-> <<>>,
   currentOrderIndex |-> 0, processed |-> 0, success |-> 0, failed |-> 0, skipped |-> 0,
   isProcessingOrder |-> FALSE, phase |-> "idle",
   retryCount |-> [i \in Ids |-> 0], retried |-> 0]

\* the record saveSessionState writes
SessionOf(s) ==
  [orderIds |-> s.orderIds, currentOrderIndex |-> s.currentOrderIndex,
   processed |-> s.processed, success |-> s.success, failed |-> s.failed,
   skipped |-> s.skipped, retryCount |-> s.retryCount, retried |-> s.retried]

\* getStatus (lines 1038-1068): the fields a status report takes from the run's flags
getStatus(s) ==
  [isRunning |-> s.isRunning, isPaused |-> s.isPaused, phase |-> s.phase,
   stopped |-> s.shouldStop /\ ~s.isRunning,
   completed |-> s.phase = "done" /\ ~s.isRunning]

\* broadcastStatus: a STATUS_UPDATE built from getStatus()
broadcastStatus(w, msg) ==
  Emit(w, "broadcast", msg, w.state.currentOrderIndex)

\* saveSessionState up to its await: the write is issued only for a non-empty work list
saveSessionState(w) ==
  IF Len(w.state.orderIds) > 0
  THEN Emit([w EXCEPT !.storage.sessionState = <<SessionOf(w.state)>>], "saveSession", "", Null)
  ELSE w

\* whether `await saveSessionState()` suspends the caller on real I/O
SaveSuspends(w) == Len(w.state.orderIds) > 0

clearSessionState(w) ==
  Emit([w EXCEPT !.storage.sessionState = <<>>], "clearSession", "", Null)

stopOrderWatchdog(w) == [w EXCEPT !.orderWatchdogTimer = Null]

startOrderWatchdog(w, orderId) == [stopOrderWatchdog(w) EXCEPT !.orderWatchdogTimer = orderId]

\* ---- the item loop

\* backoff before a retry (lines 664 and 815)
RetryDelay(currentRetries) == 3000 + currentRetries * 2000

\* chrome.tabs.update / reload of the owned tab: issued, and when accepted the
\* tab later reports load-complete; when rejected the caller's catch runs later
Navigate(w, kind, url, orderId, ok, onFail) ==
  IF ok
  THEN Spawn(Emit(w, kind, url, orderId),
             Task("load", w.state.currentTabId, url, <<>>))
  ELSE Spawn([w EXCEPT !.faults = @ - 1], onFail)

\* handleOrderFailed after its `await saveSessionState()` on the terminal path (lines 832-834)
HofTail(w) == Spawn(broadcastStatus(w, ""), T0("t_pno"))

\* handleOrderFailed with a backoff that does not grow: the faulty variant
\* C19 is checked against
HofFlatBackoff(w, orderId) ==
  LET currentRetries == w.state.retryCount[orderId] IN
  IF currentRetries < MAX_RETRIES
  THEN Spawn(saveSessionState([w EXCEPT !.state.retryCount[orderId] = currentRetries + 1,
                                        !.state.isProcessingOrder = FALSE]),
             Task("t_retry", RetryDelay(0), "", <<>>))
  ELSE LET w1 == saveSessionState([w EXCEPT !.state.failed = @ + 1,
                                            !.state.processed = @ + 1,
                                            !.state.currentOrderIndex = @ + 1,
                                            !.state.isProcessingOrder = FALSE])
       IN IF SaveSuspends(w1) THEN Spawn(w1, T0("c_hof_saved")) ELSE HofTail(w1)

\* handleOrderFailed (lines 801-835) up to its first suspension
handleOrderFailed(w, orderId) ==
  LET currentRetries == w.state.retryCount[orderId] IN
  IF currentRetries < MAX_RETRIES
  THEN Spawn(saveSessionState([w EXCEPT !.state.retryCount[orderId] = currentRetries + 1,
                                        !.state.isProcessingOrder = FALSE]),
             Task("t_retry", RetryDelay(currentRetries), "", <<>>))
  ELSE LET w1 == saveSessionState([w EXCEPT !.state.failed = @ + 1,
                                            !.state.processed = @ + 1,
                                            !.state.currentOrderIndex = @ + 1,
                                            !.state.isProcessingOrder = FALSE])
       IN IF SaveSuspends(w1) THEN Spawn(w1, T0("c_hof_saved")) ELSE HofTail(w1)

\* processNextOrder from line 534: arm the watchdog, navigate to the item page
PnoNavigate(w, ok) ==
  LET orderId == w.state.orderIds[w.state.currentOrderIndex + 1]
      w1 == startOrderWatchdog(broadcastStatus(w, "processing"), orderId)
  IN Navigate(w1, "nav", "detail", orderId, ok, Task("c_navfail", orderId, "pno", <<>>))

\* processNextOrder's page advance without `state.currentPage++`: the faulty
\* variant that the ordering property C13_Ordering must tell from PnoPageDone
PnoPageDoneSamePage(w) ==
  IF w.state.currentPage < w.state.endPage
  THEN Spawn([w EXCEPT !.state.orderIds = <<>>,
                       !.state.currentOrderIndex = 0,
                       !.state.phase = "collecting",
                       !.collectCalled = FALSE],
             T0("t_pageNav"))
  ELSE clearSessionState(broadcastStatus([w EXCEPT !.state.isRunning = FALSE,
                                                   !.state.phase = "done"], "completed"))

\* processNextOrder after `await saveToStorage()` (lines 500-531)
PnoPageDone(w) ==
  IF w.state.currentPage < w.state.endPage
  THEN Spawn([w EXCEPT !.state.currentPage = @ + 1,
                       !.state.orderIds = <<>>,
                       !.state.currentOrderIndex = 0,
                       !.state.phase = "collecting",
                       !.collectCalled = FALSE],
             T0("t_pageNav"))
  ELSE clearSessionState(broadcastStatus([w EXCEPT !.state.isRunning = FALSE,
                                                   !.state.phase = "done"], "completed"))

\* handleOrderDataExtracted from line 683, after `await saveSessionState()`
HodeTail(w) == Spawn(broadcastStatus(w, ""), T0("t_pno"))

\* handleOrderDataExtracted at line 681
HodeSave(w) ==
  LET w1 == saveSessionState(w)
  IN IF SaveSuspends(w1) THEN Spawn(w1, T0("c_hode_saved")) ELSE HodeTail(w1)

\* handleOrderDataExtracted after `await saveToStorage()` (lines 630-632, then 681)
HodeAfterSave(w) ==
  HodeSave([w EXCEPT !.state.processed = @ + 1,
                     !.state.currentOrderIndex = @ + 1,
                     !.state.isProcessingOrder = FALSE])

\* the caller of saveToStorage resumes
AfterSaveToStorage(w, caller) ==
  IF caller = "pno" THEN PnoPageDone(w) ELSE HodeAfterSave(w)

\* saveToStorage (lines 770-796) up to its first await
saveToStorage(w, caller) ==
  IF Len(w.state.collectedData) = 0
  THEN AfterSaveToStorage(w, caller)
  ELSE Spawn(w, Task("c_sts_get", Null, caller, w.storage.exportedOrders))

\* saveToStorage resumed with the exportedOrders it read (lines 775-784)
StsAfterGet(w, caller, existingOrders) ==
  LET newOrders == Filter(w.state.collectedData, existingOrders)
      allOrders == existingOrders \o newOrders
  IN IF Len(newOrders) = 0
     THEN AfterSaveToStorage(w, caller)
     ELSE Spawn(Emit([w EXCEPT !.storage.exportedOrders = allOrders], "saveOrders", "", Null),
                Task("c_sts_set", Null, caller, allOrders))

\* saveToStorage resumed after the write (lines 787-790)
StsAfterSet(w, caller, allOrders) ==
  AfterSaveToStorage([w EXCEPT !.state.existingOrderIds = allOrders,
                               !.state.collectedData = <<>>], caller)

\* processNextOrder with the lookup in existingOrderIds left out: the faulty
\* variant that the dedup property C2_Dedup must tell from PnoLoop
PnoLoopNoDedup(w, ok) ==
  IF w.state.currentOrderIndex >= Len(w.state.orderIds)
  THEN saveToStorage(stopOrderWatchdog(w), "pno")
  ELSE PnoNavigate(w, ok)

\* processNextOrder from the head of its skip loop (lines 478-554)
PnoLoop(w, ok) ==
  LET s == w.state IN
  IF s.currentOrderIndex < Len(s.orderIds)
     /\ Includes(s.existingOrderIds, s.orderIds[s.currentOrderIndex + 1])
  THEN Spawn(saveSessionState(broadcastStatus([w EXCEPT !.state.skipped = @ + 1,
                                                        !.state.currentOrderIndex = @ + 1], "")),
             T0("c_pno_skip"))
  ELSE IF s.currentOrderIndex >= Len(s.orderIds)
       THEN saveToStorage(stopOrderWatchdog(w), "pno")
       ELSE PnoNavigate(w, ok)

\* processNextOrder (lines 474-554)
processNextOrder(w, ok) ==
  IF w.state.shouldStop \/ ~w.state.isRunning THEN w ELSE PnoLoop(w, ok)

\* retryCurrentOrder (lines 701-721)
retryCurrentOrder(w, ok) ==
  IF w.state.shouldStop \/ ~w.state.isRunning THEN w
  ELSE IF w.state.currentOrderIndex >= Len(w.state.orderIds) THEN w
  ELSE LET orderId == w.state.orderIds[w.state.currentOrderIndex + 1]
       IN Navigate(broadcastStatus(w, "retrying"), "nav", "detail", orderId, ok,
                   Task("c_navfail", orderId, "retry", <<>>))

\* processCurrentOrder (lines 559-569) up to its sleep
processCurrentOrder(w) ==
  IF w.state.shouldStop \/ ~w.state.isRunning THEN w
  ELSE IF w.state.currentOrderIndex >= Len(w.state.orderIds) THEN w
  ELSE IF w.state.isProcessingOrder THEN w
  ELSE Spawn([w EXCEPT !.state.isProcessingOrder = TRUE],
             Task("sleep_pco", w.state.orderIds[w.state.currentOrderIndex + 1], "", <<>>))

\* processCurrentOrder after the sleep (lines 574-581): dispatch EXTRACT_ORDER_DATA
PcoAfterSleep(w, orderId, ok) ==
  IF w.state.currentTabId = Null
  THEN handleOrderFailed(w, orderId)  \* sendMessage(null, ...) throws in the call: the catch runs at once
  ELSE IF ok
  THEN Spawn(Emit(w, "dispatch", "extract", orderId),
             Task("req_extract", orderId, "", <<>>))
  ELSE Spawn([w EXCEPT !.faults = @ - 1], Task("c_sendfail", orderId, "pco", <<>>))

\* handleOrderDataExtracted giving up one failure early (retries only while
\* currentRetries < MAX_RETRIES - 1): the faulty variant that the retry-ceiling
\* property C3_RetryCeiling must tell from handleOrderDataExtracted
HodeGivesUpEarly(w, data) ==
  LET w0 == stopOrderWatchdog(w)
      s == w.state
  IN
  IF ~s.isRunning THEN w0
  ELSE IF s.currentOrderIndex >= Len(s.orderIds) THEN w0
  ELSE
    LET orderId == s.orderIds[s.currentOrderIndex + 1]
        currentRetries == s.retryCount[orderId]
    IN
    IF data = "ok"
    THEN saveToStorage([w0 EXCEPT !.state.retried = IF currentRetries > 0 THEN @ + 1 ELSE @,
                                  !.state.success = @ + 1,
                                  !.state.collectedData = Append(@, orderId)], "hode")
    ELSE IF data = "skip"
    THEN Spawn(saveSessionState([w0 EXCEPT !.state.failed = @ + 1,
                                           !.state.processed = @ + 1,
                                           !.state.currentOrderIndex = @ + 1,
                                           !.state.isProcessingOrder = FALSE]),
               T0("c_hode_skip"))
    ELSE IF currentRetries < MAX_RETRIES - 1
    THEN Spawn(saveSessionState([w0 EXCEPT !.state.retryCount[orderId] = currentRetries + 1,
                                           !.state.isProcessingOrder = FALSE]),
               Task("t_retry", RetryDelay(currentRetries), "", <<>>))
    ELSE HodeSave([w0 EXCEPT !.state.failed = @ + 1,
                             !.state.processed = @ + 1,
                             !.state.currentOrderIndex = @ + 1,
                             !.state.isProcessingOrder = FALSE])

\* handleOrderDataExtracted without the skipRetry branch, a blocked answer
\* retried like any failure: the faulty variant that the non-retryable-block
\* property C4_SkipRetry must tell from handleOrderDataExtracted
HodeRetriesBlocked(w, data) ==
  LET w0 == stopOrderWatchdog(w)
      s == w.state
  IN
  IF ~s.isRunning THEN w0
  ELSE IF s.currentOrderIndex >= Len(s.orderIds) THEN w0
  ELSE
    LET orderId == s.orderIds[s.currentOrderIndex + 1]
        currentRetries == s.retryCount[orderId]
    IN
    IF data = "ok"
    THEN saveToStorage([w0 EXCEPT !.state.retried = IF currentRetries > 0 THEN @ + 1 ELSE @,
                                  !.state.success = @ + 1,
                                  !.state.collectedData = Append(@, orderId)], "hode")
    ELSE IF currentRetries < MAX_RETRIES
    THEN Spawn(saveSessionState([w0 EXCEPT !.state.retryCount[orderId] = currentRetries + 1,
                                           !.state.isProcessingOrder = FALSE]),
               Task("t_retry", RetryDelay(currentRetries), "", <<>>))
    ELSE HodeSave([w0 EXCEPT !.state.failed = @ + 1,
                             !.state.processed = @ + 1,
                             !.state.currentOrderIndex = @ + 1,
                             !.state.isProcessingOrder = FALSE])

\* handleOrderDataExtracted without the isRunning test on entry: the faulty
\* variant that the discard property C11_LateResponse must tell from
\* handleOrderDataExtracted
HodeIgnoresStop(w, data) ==
  LET w0 == stopOrderWatchdog(w)
      s == w.state
  IN
  IF s.currentOrderIndex >= Len(s.orderIds) THEN w0
  ELSE
    LET orderId == s.orderIds[s.currentOrderIndex + 1]
        currentRetries == s.retryCount[orderId]
    IN
    IF data = "ok"
    THEN saveToStorage([w0 EXCEPT !.state.retried = IF currentRetries > 0 THEN @ + 1 ELSE @,
                                  !.state.success = @ + 1,
                                  !.state.collectedData = Append(@, orderId)], "hode")
    ELSE IF data = "skip"
    THEN Spawn(saveSessionState([w0 EXCEPT !.state.failed = @ + 1,
                                           !.state.processed = @ + 1,
                                           !.state.currentOrderIndex = @ + 1,
                                           !.state.isProcessingOrder = FALSE]),
               T0("c_hode_skip"))
    ELSE IF currentRetries < MAX_RETRIES
    THEN Spawn(saveSessionState([w0 EXCEPT !.state.retryCount[orderId] = currentRetries + 1,
                                           !.state.isProcessingOrder = FALSE]),
               Task("t_retry", RetryDelay(currentRetries), "", <<>>))
    ELSE HodeSave([w0 EXCEPT !.state.failed = @ + 1,
                             !.state.processed = @ + 1,
                             !.state.currentOrderIndex = @ + 1,
                             !.state.isProcessingOrder = FALSE])

\* handleOrderDataExtracted retrying once more than MAX_RETRIES allows: the
\* faulty variant C32 is checked against
HodeRetriesOnceMore(w, data) ==
  LET w0 == stopOrderWatchdog(w)
      s == w.state
  IN
  IF ~s.isRunning THEN w0
  ELSE IF s.currentOrderIndex >= Len(s.orderIds) THEN w0
  ELSE
    LET orderId == s.orderIds[s.currentOrderIndex + 1]
        currentRetries == s.retryCount[orderId]
    IN
    IF data = "ok"
    THEN saveToStorage([w0 EXCEPT !.state.retried = IF currentRetries > 0 THEN @ + 1 ELSE @,
                                  !.state.success = @ + 1,
                                  !.state.collectedData = Append(@, orderId)], "hode")
    ELSE IF data = "skip"
    THEN Spawn(saveSessionState([w0 EXCEPT !.state.failed = @ + 1,
                                           !.state.processed = @ + 1,
                                           !.state.currentOrderIndex = @ + 1,
                                           !.state.isProcessingOrder = FALSE]),
               T0("c_hode_skip"))
    ELSE IF currentRetries <= MAX_RETRIES
    THEN Spawn(saveSessionState([w0 EXCEPT !.state.retryCount[orderId] = currentRetries + 1,
                                           !.state.isProcessingOrder = FALSE]),
               Task("t_retry", RetryDelay(currentRetries), "", <<>>))
    ELSE HodeSave([w0 EXCEPT !.state.failed = @ + 1,
                             !.state.processed = @ + 1,
                             !.state.currentOrderIndex = @ + 1,
                             !.state.isProcessingOrder = FALSE])

\* handleOrderDataExtracted (lines 587-696) up to its first suspension;
\* data is "ok" (hasData, not masked), "skip" (skipRetry) or "masked"
handleOrderDataExtracted(w, data) ==
  LET w0 == stopOrderWatchdog(w)
      s == w.state
  IN
  IF ~s.isRunning THEN w0
  ELSE IF s.currentOrderIndex >= Len(s.orderIds) THEN w0  \* orderId is undefined: line 594 throws
  ELSE
    LET orderId == s.orderIds[s.currentOrderIndex + 1]
        currentRetries == s.retryCount[orderId]
    IN
    IF data = "ok"
    THEN saveToStorage([w0 EXCEPT !.state.retried = IF currentRetries > 0 THEN @ + 1 ELSE @,
                                  !.state.success = @ + 1,
                                  !.state.collectedData = Append(@, orderId)], "hode")
    ELSE IF data = "skip"
    THEN Spawn(saveSessionState([w0 EXCEPT !.state.failed = @ + 1,
                                           !.state.processed = @ + 1,
                                           !.state.currentOrderIndex = @ + 1,
                                           !.state.isProcessingOrder = FALSE]),
               T0("c_hode_skip"))
    ELSE IF currentRetries < MAX_RETRIES
    THEN Spawn(saveSessionState([w0 EXCEPT !.state.retryCount[orderId] = currentRetries + 1,
                                           !.state.isProcessingOrder = FALSE]),
               Task("t_retry", RetryDelay(currentRetries), "", <<>>))
    ELSE HodeSave([w0 EXCEPT !.state.failed = @ + 1,
                             !.state.processed = @ + 1,
                             !.state.currentOrderIndex = @ + 1,
                             !.state.isProcessingOrder = FALSE])

\* handleOrderDataExtracted on the skipRetry path after its save (lines 649-650):
\* the broadcast, then the call of scheduleNextOrder, which no file defines: the
\* ReferenceError ends the handler and nothing is scheduled
HodeSkipTail(w) == broadcastStatus(w, "")

\* ---- commands, collection, the tab listener

\* handleStop without the removal of sessionState: the faulty variant that the
\* stop property C8_StopTwice must tell from handleStop
handleStopKeepsCheckpoint(w) ==
  Spawn(stopOrderWatchdog([w EXCEPT !.state.shouldStop = TRUE,
                                    !.state.isRunning = FALSE,
                                    !.state.isPaused = FALSE]),
        T0("c_stop"))

\* handleStop (lines 331-341) up to its await
handleStop(w) ==
  Spawn(clearSessionState(stopOrderWatchdog([w EXCEPT !.state.shouldStop = TRUE,
                                                      !.state.isRunning = FALSE,
                                                      !.state.isPaused = FALSE])),
        T0("c_stop"))

\* handleStop after `await clearSessionState()` (line 343)
StopTail(w) == broadcastStatus(w, "stopped")

\* handlePause without stopOrderWatchdog: the faulty variant that the pause
\* property C14_PausePreserves must tell from handlePause
handlePauseKeepsWatchdog(w) ==
  broadcastStatus(saveSessionState([w EXCEPT !.state.isPaused = TRUE,
                                             !.state.isRunning = FALSE]),
                  "paused")

\* handlePause (lines 292-305)
handlePause(w) ==
  broadcastStatus(saveSessionState(stopOrderWatchdog([w EXCEPT !.state.isPaused = TRUE,
                                                               !.state.isRunning = FALSE])),
                  "paused")

\* handleResumePaused without the isPaused test: the faulty variant that the
\* pause-transition property C15_PauseFlags must tell from handleResumePaused
handleResumePausedUnguarded(w, ok) ==
  processNextOrder(broadcastStatus([w EXCEPT !.state.isPaused = FALSE,
                                             !.state.isRunning = TRUE], "resuming"), ok)

\* handleResumePaused (lines 310-326)
handleResumePaused(w, ok) ==
  IF ~w.state.isPaused THEN Emit(w, "error", "Not paused", Null)
  ELSE processNextOrder(broadcastStatus([w EXCEPT !.state.isPaused = FALSE,
                                                  !.state.isRunning = TRUE], "resuming"), ok)

\* handleStart (lines 145-154) up to the read of exportedOrders
handleStart(w, startPage, endPage) ==
  IF w.state.isRunning THEN Emit(w, "error", "Already running", Null)
  ELSE Spawn([w EXCEPT !.collectCalled = FALSE],
             [Task("c_start_get", startPage, "", w.storage.exportedOrders) EXCEPT !.pg = endPage])

\* handleStart resumed with exportedOrders (lines 155-189): the state is replaced,
\* the previous checkpoint removed
StartAfterGet(w, startPage, endPage, exportedOrders) ==
  Spawn(clearSessionState([w EXCEPT !.state =
          [InitialState EXCEPT !.isRunning = TRUE,
                               !.startPage = startPage, !.endPage = endPage,
                               !.currentPage = startPage,
                               !.existingOrderIds = exportedOrders,
                               !.phase = "collecting"]]),
        T0("c_start_rm"))

\* handleStart after the remove (lines 191-198): chrome.tabs.create
StartAfterRemove(w, ok) ==
  LET w1 == broadcastStatus(w, "opening") IN
  IF ok THEN Spawn([w1 EXCEPT !.nextTab = @ + 1], Task("c_start_tab", w.nextTab, "", <<>>))
  ELSE Spawn([w1 EXCEPT !.faults = @ - 1], Task("c_start_tab", Null, "", <<>>))

\* handleStart after chrome.tabs.create settles (lines 199-206); the created
\* tab reports load-complete after the call has resolved
StartAfterCreate(w, tabId) ==
  IF tabId # Null
  THEN Spawn([w EXCEPT !.state.currentTabId = tabId], Task("load", tabId, "list", <<>>))
  ELSE [w EXCEPT !.state.isRunning = FALSE]

\* handleResume (lines 212-218) up to the read of sessionState and exportedOrders
handleResume(w) ==
  IF w.state.isRunning THEN Emit(w, "error", "Already running", Null)
  ELSE Spawn(w, [Task("c_resume_get", Null, "", w.storage.exportedOrders)
                   EXCEPT !.sess = w.storage.sessionState])

\* handleResume resumed with what it read, marking the run as running before
\* it looks at the checkpoint: the faulty variant C39 is checked against
ResumeMarksRunningFirst(w, sess, exportedOrders, ok) ==
  IF sess = <<>> \/ Len(sess[1].orderIds) = 0
  THEN Emit([w EXCEPT !.state.isRunning = TRUE], "error", "No previous session found", Null)
  ELSE
    LET session == sess[1]
        w1 == broadcastStatus([w EXCEPT !.state =
                [InitialState EXCEPT !.isRunning = TRUE,
                                     !.orderIds = session.orderIds,
                                     !.existingOrderIds = exportedOrders,
                                     !.currentOrderIndex = session.currentOrderIndex,
                                     !.processed = session.processed,
                                     !.success = session.success,
                                     !.failed = session.failed,
                                     !.skipped = session.skipped,
                                     !.phase = "processing",
                                     !.retryCount = session.retryCount,
                                     !.retried = session.retried]], "resuming")
    IN IF ok THEN Spawn([w1 EXCEPT !.nextTab = @ + 1], Task("c_resume_tab", w.nextTab, "", <<>>))
       ELSE Spawn([w1 EXCEPT !.faults = @ - 1], Task("c_resume_tab", Null, "", <<>>))

\* handleResume resumed with what it read (lines 219-270): the state is rebuilt
\* from the checkpoint; tabs.query, tabs.remove and tabs.create follow
ResumeAfterGet(w, sess, exportedOrders, ok) ==
  IF sess = <<>> \/ Len(sess[1].orderIds) = 0
  THEN Emit(w, "error", "No previous session found", Null)
  ELSE
    LET session == sess[1]
        w1 == broadcastStatus([w EXCEPT !.state =
                [InitialState EXCEPT !.isRunning = TRUE,
                                     !.orderIds = session.orderIds,
                                     !.existingOrderIds = exportedOrders,
                                     !.currentOrderIndex = session.currentOrderIndex,
                                     !.processed = session.processed,
                                     !.success = session.success,
                                     !.failed = session.failed,
                                     !.skipped = session.skipped,
                                     !.phase = "processing",
                                     !.retryCount = session.retryCount,
                                     !.retried = session.retried]], "resuming")
    IN IF ok THEN Spawn([w1 EXCEPT !.nextTab = @ + 1], Task("c_resume_tab", w.nextTab, "", <<>>))
       ELSE Spawn([w1 EXCEPT !.faults = @ - 1], Task("c_resume_tab", Null, "", <<>>))

\* handleResume after chrome.tabs.create settles (lines 271-286)
ResumeAfterCreate(w, tabId) ==
  IF tabId # Null
  THEN Spawn(Spawn([w EXCEPT !.state.currentTabId = tabId], Task("load", tabId, "list", <<>>)),
             T0("t_resume"))
  ELSE [w EXCEPT !.state.isRunning = FALSE]

\* the 4 s timer of handleResume (lines 275-279)
ResumeTimer(w, ok) ==
  IF w.state.isRunning /\ ~w.state.shouldStop THEN processNextOrder(w, ok) ELSE w

\* collectOrderIds (lines 383-407)
collectOrderIds(w, ok) ==
  IF ~w.state.isRunning \/ w.state.shouldStop THEN w
  ELSE
    LET currentPage == IF w.state.currentPage # Null THEN w.state.currentPage ELSE w.state.startPage
        w1 == broadcastStatus(w, "collecting")
    IN IF w.state.currentTabId = Null
       THEN handleStop(w1)  \* sendMessage(null, ...) throws in the call: the catch runs at once
       ELSE IF ok
       THEN Spawn(Emit(w1, "dispatch", "collect", currentPage), Task("req_collect", currentPage, "", <<>>))
       ELSE Spawn([w1 EXCEPT !.faults = @ - 1], Task("c_sendfail", Null, "coi", <<>>))

\* the timer of the page advance (lines 440-446 and 510-516); a rejected
\* tabs.update is an unhandled rejection and nothing follows
PageNavTimer(w, ok) ==
  IF w.state.isRunning /\ ~w.state.shouldStop
  THEN IF ok THEN Navigate(w, "nav", "list", Null, TRUE, T0(""))
       ELSE [w EXCEPT !.faults = @ - 1]
  ELSE w

\* handleOrderIdsCollected after `await saveSessionState()` (lines 464-468)
HoicAfterSave(w, ok) ==
  processNextOrder(broadcastStatus([w EXCEPT !.state.phase = "processing",
                                             !.state.currentOrderIndex = 0], "processing page"), ok)

\* handleOrderIdsCollected after `await clearSessionState()` (lines 455-456)
HoicDoneTail(w) == broadcastStatus(w, "completed")

\* handleOrderIdsCollected finishing without the removal of sessionState: the
\* faulty variant that the page-exhaustion property C7_PageExhaustion must tell
\* from handleOrderIdsCollected
HoicKeepsCheckpoint(w, orderIds, actualMaxPages, ok) ==
  IF ~w.state.isRunning \/ w.state.shouldStop THEN w
  ELSE
    LET currentPage == w.state.currentPage
        endPage == IF actualMaxPages # Null /\ actualMaxPages > 0 /\ actualMaxPages < w.state.endPage
                   THEN actualMaxPages ELSE w.state.endPage
        w1 == [w EXCEPT !.state.orderIds = orderIds, !.state.endPage = endPage]
    IN
    IF Len(orderIds) = 0
    THEN IF currentPage < endPage
         THEN Spawn([w1 EXCEPT !.state.currentPage = @ + 1,
                               !.state.phase = "collecting",
                               !.collectCalled = FALSE],
                    T0("t_pageNav"))
         ELSE Spawn([w1 EXCEPT !.state.isRunning = FALSE, !.state.phase = "done"],
                    T0("c_hoic_done"))
    ELSE Spawn(saveSessionState(w1), T0("c_hoic_saved"))

\* handleOrderIdsCollected without the adjustment of endPage: the faulty
\* variant that the page-range property C16_PageRange must tell from
\* handleOrderIdsCollected
HoicIgnoresMaxPages(w, orderIds, actualMaxPages, ok) ==
  IF ~w.state.isRunning \/ w.state.shouldStop THEN w
  ELSE
    LET currentPage == w.state.currentPage
        endPage == w.state.endPage
        w1 == [w EXCEPT !.state.orderIds = orderIds]
    IN
    IF Len(orderIds) = 0
    THEN IF currentPage < endPage
         THEN Spawn([w1 EXCEPT !.state.currentPage = @ + 1,
                               !.state.phase = "collecting",
                               !.collectCalled = FALSE],
                    T0("t_pageNav"))
         ELSE Spawn(clearSessionState([w1 EXCEPT !.state.isRunning = FALSE,
                                                 !.state.phase = "done"]),
                    T0("c_hoic_done"))
    ELSE Spawn(saveSessionState(w1), T0("c_hoic_saved"))

\* handleOrderIdsCollected (lines 412-469) up to its first suspension;
\* actualMaxPages is Null when the delegate reports none
handleOrderIdsCollected(w, orderIds, actualMaxPages, ok) ==
  IF ~w.state.isRunning \/ w.state.shouldStop THEN w
  ELSE
    LET currentPage == w.state.currentPage
        endPage == IF actualMaxPages # Null /\ actualMaxPages > 0 /\ actualMaxPages < w.state.endPage
                   THEN actualMaxPages ELSE w.state.endPage
        w1 == [w EXCEPT !.state.orderIds = orderIds, !.state.endPage = endPage]
    IN
    IF Len(orderIds) = 0
    THEN IF currentPage < endPage
         THEN Spawn([w1 EXCEPT !.state.currentPage = @ + 1,
                               !.state.phase = "collecting",
                               !.collectCalled = FALSE],
                    T0("t_pageNav"))
         ELSE Spawn(clearSessionState([w1 EXCEPT !.state.isRunning = FALSE,
                                                 !.state.phase = "done"]),
                    T0("c_hoic_done"))
    ELSE Spawn(saveSessionState(w1), T0("c_hoic_saved"))

\* the listener without the comparison of the event's tab with currentTabId:
\* the faulty variant C29 is checked against
onUpdatedAnyTab(w, tabId, url) ==
  IF w.state.isRunning
  THEN Spawn(w, Task("t_settle", Null, url, <<>>))
  ELSE w

\* the chrome.tabs.onUpdated listener (lines 118-140): a load-complete event
\* of the owned tab while running starts the 2 s settle timer
onUpdated(w, tabId, url) ==
  IF tabId = w.state.currentTabId /\ tabId # Null /\ w.state.isRunning
  THEN Spawn(w, Task("t_settle", Null, url, <<>>))
  ELSE w

\* the settle timer of the listener (lines 122-138)
SettleTimer(w, url, ok) ==
  IF ~w.state.isRunning \/ w.state.shouldStop THEN w
  ELSE IF w.state.phase = "collecting" /\ url = "list"
       THEN IF ~w.collectCalled THEN collectOrderIds([w EXCEPT !.collectCalled = TRUE], ok) ELSE w
       ELSE IF w.state.phase = "processing" /\ url = "detail"
            THEN IF ~w.state.isProcessingOrder THEN processCurrentOrder(w) ELSE w
            ELSE w

\* the watchdog callback without the reset of isProcessingOrder: the faulty
\* variant C23 is checked against
WatchdogTimerKeepsFlag(w, orderId, ok) ==
  IF ~w.state.isRunning \/ w.state.shouldStop THEN w
  ELSE
    IF w.state.currentTabId # Null
    THEN Navigate(w, "reload", "detail", orderId, ok, Task("c_navfail", orderId, "wd", <<>>))
    ELSE w

\* the watchdog callback (lines 1111-1131)
WatchdogTimer(w, orderId, ok) ==
  IF ~w.state.isRunning \/ w.state.shouldStop THEN w
  ELSE
    LET w1 == [w EXCEPT !.state.isProcessingOrder = FALSE] IN
    IF w.state.currentTabId # Null
    THEN Navigate(w1, "reload", "detail", orderId, ok, Task("c_navfail", orderId, "wd", <<>>))
    ELSE w1

\* NavFailed with a rejected reload counted as a terminal failure at once: the
\* variant the spec describes, which C24_EscalationRetries must tell from
\* NavFailed
NavFailedTerminal(w, orderId, caller) ==
  IF caller = "wd"
  THEN LET w1 == saveSessionState([w EXCEPT !.state.failed = @ + 1,
                                            !.state.processed = @ + 1,
                                            !.state.currentOrderIndex = @ + 1,
                                            !.state.isProcessingOrder = FALSE])
       IN IF SaveSuspends(w1) THEN Spawn(w1, T0("c_hof_saved")) ELSE HofTail(w1)
  ELSE handleOrderFailed(IF caller = "pno" THEN stopOrderWatchdog(w) ELSE w, orderId)

\* the catch blocks: a rejected tabs.update (lines 549-553, 717-720), a
\* rejected tabs.reload (lines 1126-1130), a rejected tabs.sendMessage
\* (lines 578-581, 403-406)
NavFailed(w, orderId, caller) ==
  handleOrderFailed(IF caller = "pno" THEN stopOrderWatchdog(w) ELSE w, orderId)

\* SendFailed with the catch of collectOrderIds only logging the error: the
\* faulty variant C17 is checked against
SendFailedKeepsRunning(w, orderId, caller) ==
  IF caller = "coi" THEN w ELSE handleOrderFailed(w, orderId)

SendFailed(w, orderId, caller) ==
  IF caller = "coi" THEN handleStop(w) ELSE handleOrderFailed(w, orderId)

\* ---- downloads and the export history (lines 852-1032)

\* `history.length > 50` at line 867
HISTORY_LIMIT == 50

\* the record saveExportHistory puts in the history (lines 858-864); id and
\* exportedAt are the time, the file name is made of the date and the count
HistoryRecord(id, format, count) == [id |-> id, format |-> format, count |-> count]

\* history.unshift(record); if (history.length > 50) history.length = 50
UnshiftCapped(history, record) ==
  LET h == <<record>> \o history
  IN IF Len(h) > HISTORY_LIMIT THEN SubSeq(h, 1, HISTORY_LIMIT) ELSE h

\* downloadCSV, downloadXLSX to their first await: read exportedOrders
download(w, format) ==
  Spawn(w, Task("c_dl_read", Len(w.storage.exportedOrders), format, <<>>))

\* ... from that await: nothing to download, or build the file and ask
\* chrome.downloads for it
DownloadAfterRead(w, count, format) ==
  IF count = 0 THEN w
  ELSE Spawn(Emit(w, "download", format, count), Task("req_download", count, format, <<>>))

\* saveExportHistory to its await: read exportHistory
saveExportHistory(w, format, count) ==
  Spawn(w, Task("c_hist_get", count, format, w.storage.exportHistory))

\* ... from that await: put the record at the head of the array that was read,
\* cut it to 50 and write it
SehAfterGet(w, history, format, count) ==
  [w EXCEPT !.storage.exportHistory = UnshiftCapped(history, HistoryRecord(now + 1, format, count))]

\* chrome.downloads.download settled: the history is saved, or the catch of
\* the download function logs the error
DownloadSettled(w, count, format, ok) ==
  IF ok THEN saveExportHistory(w, format, count) ELSE Emit(w, "error", format, count)

\* ---- the state machine

\* the work lists the delegate may report for a page: 1, 2, ..., n
PageLists(longest) == {[i \in 1..n |-> i] : n \in 0..longest}

\* the Accumulated Results a behaviour may start with
InitialResults == {<<>>, <<1>>}

\* the answers of the scripted delegate
Answers == [fails : 0..(MAX_RETRIES + 1), final : {"ok", "skip"}]

World ==
  [state |-> state, collectCalled |-> collectCalled, orderWatchdogTimer |-> orderWatchdogTimer,
   storage |-> storage, tasks |-> tasks, nextTab |-> nextTab, eff |-> <<>>, faults |-> faults]

Pending(k) == {t \in BagToSet(tasks) : t.k = k}

Take(t) == [World EXCEPT !.tasks = tasks (-) SetToBag({t})]

Commit(w, a, id, u, snap) ==
  /\ state' = w.state
  /\ collectCalled' = w.collectCalled
  /\ orderWatchdogTimer' = w.orderWatchdogTimer
  /\ storage' = w.storage
  /\ tasks' = w.tasks
  /\ nextTab' = w.nextTab
  /\ eff' = w.eff
  /\ faults' = w.faults
  /\ last' = [a |-> a, id |-> id, u |-> u, snap |-> snap]
  /\ asked' = LET ps == {w.eff[i].id : i \in {j \in 1..Len(w.eff) :
                                                w.eff[j].k = "dispatch" /\ w.eff[j].u = "collect"}}
              IN IF ps # {} THEN CHOOSE q \in ps : TRUE
                 ELSE IF a = "StartGot" \/ (a = "ResumeGot" /\ w.state # state) THEN Null
                 ELSE asked
  /\ fatal' = IF \/ (a = "SendRejected" /\ u = "coi")
                 \/ (a = "Settled" /\ \E i \in 1..Len(w.eff) : w.eff[i].k = "clearSession")
              THEN TRUE
              ELSE IF a = "StartGot" \/ (a = "ResumeGot" /\ w.state # state) THEN FALSE
              ELSE fatal
  /\ now' = IF a = "HistoryRead" THEN now + 1 ELSE now

\* a step of the worker that is no user command
Step(w, a, id, u, snap) ==
  /\ Commit(w, a, id, u, snap)
  /\ stops' = 0
  /\ UNCHANGED <<cmds, script, attempts, interrupted>>

\* a user command
Command(w, a, id, u) ==
  /\ cmds > 0
  /\ cmds' = cmds - 1
  /\ Commit(w, a, id, u, <<>>)
  /\ UNCHANGED <<script, attempts>>

MayFail(ok) == ok \/ faults > 0

InitWith(answers, commands, envFaults) ==
  /\ state = InitialState
  /\ collectCalled = FALSE
  /\ orderWatchdogTimer = Null
  /\ storage \in [sessionState : {<<>>}, exportedOrders : InitialResults, exportHistory : {<<>>}]
  /\ tasks = EmptyBag
  /\ nextTab = 1
  /\ eff = <<>>
  /\ last = [a |-> "load", id |-> Null, u |-> "", snap |-> <<>>]
  /\ faults = envFaults
  /\ cmds = commands
  /\ script \in [acc0 : {storage.exportedOrders}, ans : answers]
  /\ attempts = [i \in Ids |-> 0]
  /\ stops = 0
  /\ interrupted = <<>>
  /\ asked = Null
  /\ fatal = FALSE
  /\ now = 0

\* -- user commands (the onMessage listener, lines 60-112)

Start ==
  \E sp \in Pages, ep \in Pages :
    /\ sp <= ep
    /\ Command(handleStart(World, sp, ep), "Start", sp, "")
    /\ stops' = 0
    /\ interrupted' = <<>>

Resume ==
  /\ Command(handleResume(World), "Resume", Null, "")
  /\ stops' = 0
  /\ UNCHANGED interrupted

Pause ==
  /\ Command(handlePause(World), "Pause", Null, "")
  /\ stops' = 0
  /\ UNCHANGED interrupted

ResumePaused(oks) ==
  \E ok \in oks :
    /\ MayFail(ok)
    /\ Command(handleResumePaused(World, ok), "ResumePaused", Null, "")
    /\ stops' = 0
    /\ UNCHANGED interrupted

Stop ==
  /\ Command(handleStop(World), "Stop", Null, "")
  /\ stops' = IF stops < 2 THEN stops + 1 ELSE stops
  /\ UNCHANGED interrupted

\* the browser ends the service worker: its memory, timers and suspended
\* handlers are gone, chrome.storage is kept
Restart ==
  /\ cmds > 0
  /\ cmds' = cmds - 1
  /\ state' = InitialState
  /\ collectCalled' = FALSE
  /\ orderWatchdogTimer' = Null
  /\ tasks' = EmptyBag
  /\ eff' = <<>>
  /\ last' = [a |-> "Restart", id |-> Null, u |-> "", snap |-> <<>>]
  /\ asked' = Null
  /\ fatal' = FALSE
  /\ stops' = 0
  /\ interrupted' = IF /\ state.isRunning
                       /\ state.phase = "processing"
                       /\ state.currentOrderIndex < Len(state.orderIds)
                       /\ storage.sessionState # <<>>
                    THEN <<SessionOf(state)>> ELSE <<>>
  /\ UNCHANGED <<storage, nextTab, faults, script, attempts, now>>

\* -- continuations of the commands

StartGot ==
  \E t \in Pending("c_start_get") :
    Step(StartAfterGet(Take(t), t.id, t.pg, t.snap), "StartGot", t.id, "", <<>>)

StartRemoved(oks) ==
  \E t \in Pending("c_start_rm"), ok \in oks :
    MayFail(ok) /\ Step(StartAfterRemove(Take(t), ok), "StartRemoved", Null, "", <<>>)

StartCreated ==
  \E t \in Pending("c_start_tab") :
    Step(StartAfterCreate(Take(t), t.id), "StartCreated", t.id, "", <<>>)

ResumeGot(oks) ==
  \E t \in Pending("c_resume_get"), ok \in oks :
    /\ MayFail(ok)
    /\ Commit(ResumeAfterGet(Take(t), t.sess, t.snap, ok), "ResumeGot", Null, "", <<>>)
    /\ stops' = 0
    /\ interrupted' = interrupted
    /\ UNCHANGED <<cmds, script, attempts>>

ResumeCreated ==
  \E t \in Pending("c_resume_tab") :
    Step(ResumeAfterCreate(Take(t), t.id), "ResumeCreated", t.id, "", <<>>)

ResumeFired(oks) ==
  \E t \in Pending("t_resume"), ok \in oks :
    MayFail(ok) /\ Step(ResumeTimer(Take(t), ok), "ResumeFired", Null, "", <<>>)

Stopped ==
  \E t \in Pending("c_stop") : Step(StopTail(Take(t)), "Stopped", Null, "", <<>>)

\* -- the tab

TabLoaded ==
  \E t \in Pending("load") : Step(onUpdated(Take(t), t.id, t.u), "TabLoaded", t.id, t.u, <<>>)

Settled(oks) ==
  \E t \in Pending("t_settle"), ok \in oks :
    MayFail(ok) /\ Step(SettleTimer(Take(t), t.u, ok), "Settled", Null, t.u, <<>>)

PageNav(oks) ==
  \E t \in Pending("t_pageNav"), ok \in oks :
    MayFail(ok) /\ Step(PageNavTimer(Take(t), ok), "PageNav", Null, "", <<>>)

\* -- the delegate (the content script)

\* ORDER_IDS_COLLECTED arrives
Collected(oks, longest) ==
  \E t \in Pending("req_collect"), ids \in PageLists(longest), amp \in {Null, 1}, ok \in oks :
    /\ MayFail(ok)
    /\ Step(handleOrderIdsCollected(Take(t), ids, amp, ok), "Collected", amp, "", ids)

CollectedSaved(oks) ==
  \E t \in Pending("c_hoic_saved"), ok \in oks :
    MayFail(ok) /\ Step(HoicAfterSave(Take(t), ok), "CollectedSaved", Null, "", <<>>)

CollectedDone ==
  \E t \in Pending("c_hoic_done") : Step(HoicDoneTail(Take(t)), "CollectedDone", Null, "", <<>>)

\* ORDER_DATA_EXTRACTED arrives with any answer
Extracted ==
  \E t \in Pending("req_extract"), data \in {"ok", "skip", "masked"} :
    Step(handleOrderDataExtracted(Take(t), data), "Extracted", t.id, data, <<>>)

\* ORDER_DATA_EXTRACTED arrives with the answer the script gives this attempt
ScriptedExtracted ==
  \E t \in Pending("req_extract") :
    LET a == script.ans[t.id]
        data == IF attempts[t.id] < a.fails THEN "masked" ELSE a.final
    IN /\ Commit(handleOrderDataExtracted(Take(t), data), "Extracted", t.id, data, <<>>)
       /\ attempts' = [attempts EXCEPT ![t.id] = @ + 1]
       /\ stops' = 0
       /\ UNCHANGED <<cmds, script, interrupted>>

\* the delegate never answers a request (its page was replaced, or it hangs)
Lost ==
  \E t \in Pending("req_collect") \cup Pending("req_extract") :
    /\ faults > 0
    /\ Step([Take(t) EXCEPT !.faults = @ - 1], "Lost", t.id, t.k, <<>>)

\* -- the item loop

NextOrderFired(oks) ==
  \E t \in Pending("t_pno"), ok \in oks :
    MayFail(ok) /\ Step(processNextOrder(Take(t), ok), "NextOrderFired", Null, "", <<>>)

SkipSaved(oks) ==
  \E t \in Pending("c_pno_skip"), ok \in oks :
    MayFail(ok) /\ Step(PnoLoop(Take(t), ok), "SkipSaved", Null, "", <<>>)

RetryFired(oks) ==
  \E t \in Pending("t_retry"), ok \in oks :
    MayFail(ok) /\ Step(retryCurrentOrder(Take(t), ok), "RetryFired", t.id, "", <<>>)

Slept(oks) ==
  \E t \in Pending("sleep_pco"), ok \in oks :
    MayFail(ok) /\ Step(PcoAfterSleep(Take(t), t.id, ok), "Slept", t.id, "", <<>>)

OrdersRead ==
  \E t \in Pending("c_sts_get") :
    Step(StsAfterGet(Take(t), t.u, t.snap), "OrdersRead", Null, t.u, <<>>)

OrdersWritten ==
  \E t \in Pending("c_sts_set") :
    Step(StsAfterSet(Take(t), t.u, t.snap), "OrdersWritten", Null, t.u, <<>>)

ExtractedSaved ==
  \E t \in Pending("c_hode_saved") : Step(HodeTail(Take(t)), "ExtractedSaved", Null, "", <<>>)

ExtractedSkip ==
  \E t \in Pending("c_hode_skip") : Step(HodeSkipTail(Take(t)), "ExtractedSkip", Null, "", <<>>)

FailedSaved ==
  \E t \in Pending("c_hof_saved") : Step(HofTail(Take(t)), "FailedSaved", Null, "", <<>>)

NavRejected ==
  \E t \in Pending("c_navfail") : Step(NavFailed(Take(t), t.id, t.u), "NavRejected", t.id, t.u, <<>>)

SendRejected ==
  \E t \in Pending("c_sendfail") : Step(SendFailed(Take(t), t.id, t.u), "SendRejected", t.id, t.u, <<>>)

\* the watchdog expires: the item page never answered. A page that never
\* answers and a reload that is rejected are one fault (the tab is gone)
WatchdogFired(oks) ==
  \E ok \in oks :
    /\ orderWatchdogTimer # Null
    /\ faults > 0
    /\ LET rejected == /\ ~ok /\ state.isRunning /\ ~state.shouldStop
                       /\ state.currentTabId # Null
       IN Step(WatchdogTimer([World EXCEPT !.orderWatchdogTimer = Null,
                                           !.faults = IF rejected THEN @ ELSE @ - 1],
                             orderWatchdogTimer, ok),
               "WatchdogFired", orderWatchdogTimer, IF rejected THEN "rejected" ELSE "", <<>>)

\* -- the specifications

NoScript == {[i \in Ids |-> [fails |-> 0, final |-> "ok"]]}

\* -- downloads (DOWNLOAD_CSV, DOWNLOAD_XLSX of the onMessage listener)

Formats == {"CSV", "XLSX"}

Download ==
  \E f \in Formats :
    /\ Command(download(World, f), "Download", Null, f)
    /\ stops' = 0
    /\ UNCHANGED interrupted

DownloadRead ==
  \E t \in Pending("c_dl_read") : Step(DownloadAfterRead(Take(t), t.id, t.u), "DownloadRead", t.id, t.u, <<>>)

Downloaded(oks) ==
  \E t \in Pending("req_download"), ok \in oks :
    Step(DownloadSettled(Take(t), t.id, t.u, ok), "Downloaded", t.id, t.u, <<>>)

HistoryRead ==
  \E t \in Pending("c_hist_get") :
    Step(SehAfterGet(Take(t), t.snap, t.u, t.id), "HistoryRead", t.id, t.u, <<>>)

Commands == Start \/ Resume \/ Pause \/ ResumePaused({TRUE}) \/ Stop \/ Restart

\* the worker's own steps when no chrome.tabs call is rejected
Worker ==
  \/ StartGot \/ StartRemoved({TRUE}) \/ StartCreated
  \/ TabLoaded \/ Settled({TRUE}) \/ PageNav({TRUE})
  \/ CollectedSaved({TRUE}) \/ CollectedDone
  \/ NextOrderFired({TRUE}) \/ SkipSaved({TRUE}) \/ RetryFired({TRUE}) \/ Slept({TRUE})
  \/ OrdersRead \/ OrdersWritten \/ ExtractedSaved \/ ExtractedSkip

Resuming == ResumeGot({TRUE}) \/ ResumeCreated \/ ResumeFired({TRUE}) \/ Stopped

\* Spec: any user commands and worker restarts, a delegate that answers anything,
\* no environment fault
Init == InitWith(NoScript, MaxCmds, 0)

Next == Commands \/ Worker \/ Resuming \/ Collected({TRUE}, MaxList) \/ Extracted \/ FailedSaved

Spec == Init /\ [][Next]_vars

\* SpecFaults: fewer commands, and environment faults
InitFaults == InitWith(NoScript, MaxFaultCmds, MaxFaults)

NextFaults ==
  \/ Start \/ Resume \/ Pause \/ ResumePaused(BOOLEAN) \/ Stop \/ Restart
  \/ StartGot \/ StartRemoved(BOOLEAN) \/ StartCreated
  \/ ResumeGot(BOOLEAN) \/ ResumeCreated \/ ResumeFired(BOOLEAN) \/ Stopped
  \/ TabLoaded \/ Settled(BOOLEAN) \/ PageNav(BOOLEAN)
  \/ Collected(BOOLEAN, MaxList) \/ CollectedSaved(BOOLEAN) \/ CollectedDone
  \/ Extracted \/ Lost
  \/ NextOrderFired(BOOLEAN) \/ SkipSaved(BOOLEAN) \/ RetryFired(BOOLEAN) \/ Slept(BOOLEAN)
  \/ OrdersRead \/ OrdersWritten \/ ExtractedSaved \/ ExtractedSkip \/ FailedSaved
  \/ NavRejected \/ SendRejected \/ WatchdogFired(BOOLEAN)

SpecFaults == InitFaults /\ [][NextFaults]_vars

\* SpecScripted: one Start, a delegate that answers every request as the script
\* says, no environment fault
InitScripted == InitWith([Ids -> Answers], 1, 0)

NextScripted == Start \/ Worker \/ Collected({TRUE}, MaxIds) \/ ScriptedExtracted

SpecScripted == InitScripted /\ [][NextScripted]_vars

\* SpecHistory: downloads of the Accumulated Results, in either format, which
\* may overlap and may be rejected; the history starts empty, one short of
\* full, or full

MaxExports == 3

\* n records, the newest first
HistoryOf(n) == [i \in 1..n |-> HistoryRecord(n - i + 1, "CSV", 1)]

InitialHistories == {HistoryOf(n) : n \in {0, HISTORY_LIMIT - 1, HISTORY_LIMIT}}

InitHistory ==
  /\ state = InitialState
  /\ collectCalled = FALSE
  /\ orderWatchdogTimer = Null
  /\ storage \in [sessionState : {<<>>}, exportedOrders : InitialResults, exportHistory : InitialHistories]
  /\ tasks = EmptyBag
  /\ nextTab = 1
  /\ eff = <<>>
  /\ last = [a |-> "load", id |-> Null, u |-> "", snap |-> <<>>]
  /\ faults = 0
  /\ cmds = MaxExports
  /\ script \in [acc0 : {storage.exportedOrders}, ans : NoScript]
  /\ attempts = [i \in Ids |-> 0]
  /\ stops = 0
  /\ interrupted = <<>>
  /\ asked = Null
  /\ fatal = FALSE
  /\ now = Len(storage.exportHistory)

NextHistory == Download \/ DownloadRead \/ Downloaded(BOOLEAN) \/ HistoryRead

SpecHistory == InitHistory /\ [][NextHistory]_vars

\* SpecStall: one Start, then a Pause and a RESUME_PAUSED, a delegate that
\* answers anything, and a watchdog that may expire once

MaxStallCmds == 3

InitStall == InitWith(NoScript, MaxStallCmds, 1)

NextStall ==
  \/ (cmds = MaxStallCmds /\ Start)
  \/ (cmds = MaxStallCmds - 1 /\ Pause)
  \/ (cmds = MaxStallCmds - 2 /\ ResumePaused({TRUE}))
  \/ Worker \/ Collected({TRUE}, MaxList) \/ Extracted
  \/ WatchdogFired({TRUE})

SpecStall == InitStall /\ [][NextStall]_vars

\* SpecResume: one Start, then Pause, then RESUME_SCRAPING, in that order, with
\* one environment fault: a resume from the checkpoint while handlers of the
\* paused run are still suspended

MaxResumeCmds == 3

InitResume == InitWith(NoScript, MaxResumeCmds, 1)

NextResume ==
  \/ (cmds = MaxResumeCmds /\ Start)
  \/ (cmds = MaxResumeCmds - 1 /\ Pause)
  \/ (cmds = MaxResumeCmds - 2 /\ Resume)
  \/ StartGot \/ StartRemoved(BOOLEAN) \/ StartCreated
  \/ ResumeGot(BOOLEAN) \/ ResumeCreated \/ ResumeFired(BOOLEAN)
  \/ TabLoaded \/ Settled(BOOLEAN) \/ PageNav(BOOLEAN)
  \/ Collected(BOOLEAN, MaxList) \/ CollectedSaved(BOOLEAN) \/ CollectedDone
  \/ Extracted \/ Lost
  \/ NextOrderFired(BOOLEAN) \/ SkipSaved(BOOLEAN) \/ RetryFired(BOOLEAN) \/ Slept(BOOLEAN)
  \/ OrdersRead \/ OrdersWritten \/ ExtractedSaved \/ ExtractedSkip \/ FailedSaved
  \/ NavRejected \/ SendRejected \/ WatchdogFired(BOOLEAN)

SpecResume == InitResume /\ [][NextResume]_vars

\* SpecTransient: SpecScripted with a delegate whose every answer is a success
\* or a transient failure (no skipRetry), and with weak fairness of the
\* worker's, the tab's and the delegate's steps: a pending timer, continuation,
\* page load or request is eventually served
TransientAnswers == {a \in Answers : a.final = "ok"}

InitTransient == InitWith([Ids -> TransientAnswers], 1, 0)

TransientSteps ==
  \/ StartGot \/ StartRemoved({TRUE}) \/ StartCreated
  \/ TabLoaded \/ Settled({TRUE}) \/ PageNav({TRUE})
  \/ Collected({TRUE}, MaxIds) \/ CollectedSaved({TRUE}) \/ CollectedDone
  \/ NextOrderFired({TRUE}) \/ SkipSaved({TRUE}) \/ RetryFired({TRUE}) \/ Slept({TRUE})
  \/ OrdersRead \/ OrdersWritten \/ ExtractedSaved
  \/ ScriptedExtracted

NextTransient == Start \/ TransientSteps

SpecTransient == InitTransient /\ [][NextTransient]_vars /\ WF_vars(TransientSteps)


\* ---- vocabulary of the properties

\* the identifier is in Accumulated Results (chrome.storage exportedOrders)
Exported(id) == Includes(storage.exportedOrders, id)

\* nothing is pending: no timer, no suspended handler, no tab load, no request
\* at the delegate, no armed watchdog
Quiescent == tasks = EmptyBag /\ orderWatchdogTimer = Null

\* the counters {processed, success, failed, skipped, retried}
Tally(s) == <<s.processed, s.success, s.failed, s.skipped, s.retried>>

\* effects that drive the tab or the delegate
Outward == {"nav", "reload", "dispatch"}

\* the identifiers of the work list that were not in Accumulated Results at the start
Fresh == {x \in {state.orderIds[i] : i \in 1..Len(state.orderIds)} : ~Includes(script.acc0, x)}

\* the pending retry timers
RetryTimers(b) == {t \in BagToSet(b) : t.k = "t_retry"}

\* ---- the properties

\* C1 (resumability), under Spec: when handleResume rebuilds the state of a run
\* that a worker restart interrupted mid-page with a checkpoint present, the
\* work list, cursor, counters and retryCount equal the values they had at the
\* interruption.  Refuted: a success is counted in memory before
\* `await saveToStorage()` and checkpointed only after it.
C1_Resumability ==
  [][(last'.a = "ResumeGot" /\ interrupted # <<>> /\ state'.isRunning)
       => SessionOf(state') = interrupted[1]]_vars

\* the steps that run processNextOrder's skip loop, and the cursor the loop starts from
LoopSteps == {"NextOrderFired", "SkipSaved", "CollectedSaved", "ResumeFired", "ResumePaused"}

CursorBefore == IF last'.a = "CollectedSaved" THEN 0 ELSE state.currentOrderIndex

\* C2 (dedup), under SpecScripted: no navigation to an item page and no
\* ExtractItem dispatch is ever issued for an identifier that is in Accumulated
\* Results; and when processNextOrder finds the identifier at the cursor in
\* Accumulated Results, that step counts it as skipped (skipped+1, cursor+1)
\* and issues no navigation or dispatch, so the skips at the head of a page
\* come before the page's first navigation.
C2_Dedup ==
  [][/\ \A i \in 1..Len(eff') :
          (eff'[i].k \in {"nav", "dispatch"} /\ eff'[i].u \in {"detail", "extract"})
            => ~Exported(eff'[i].id)
     /\ ( /\ last'.a \in LoopSteps
          /\ state.isRunning /\ ~state.shouldStop
          /\ CursorBefore < Len(state.orderIds)
          /\ Exported(state.orderIds[CursorBefore + 1]) )
        => /\ state'.skipped = state.skipped + 1
           /\ state'.currentOrderIndex = CursorBefore + 1
           /\ \A i \in 1..Len(eff') : eff'[i].k \notin Outward]_vars

\* C2 happens: identifier 1 at the head of the page was skipped, and the step
\* after the skip navigates to identifier 2
C2_Witness ==
  /\ last.a = "SkipSaved" /\ state.skipped = 1 /\ state.currentOrderIndex = 1
  /\ Exported(state.orderIds[1])
  /\ \E i \in 1..Len(eff) : eff[i].k = "nav" /\ eff[i].id = 2

\* a run of one page that reached Done
SinglePageDone ==
  /\ state.phase = "done"
  /\ state.startPage # Null
  /\ state.startPage = state.endPage
  /\ state.currentPage = state.startPage

\* C3 (retry ceiling), under SpecScripted: when a one-page run is Done, every
\* fresh identifier that failed transiently at most MAX_RETRIES times before
\* succeeding is counted once in success, those among them that failed at
\* least once are counted once in retried, only identifiers that failed more
\* than MAX_RETRIES times are counted in failed, and the cursor has passed
\* each identifier once.  An identifier failing exactly MAX_RETRIES times and
\* succeeding on attempt MAX_RETRIES + 1 is thus in success and retried, not
\* in failed.
C3_RetryCeiling ==
  SinglePageDone =>
    /\ state.success = Cardinality({x \in Fresh : script.ans[x].fails <= MAX_RETRIES})
    /\ state.retried = Cardinality({x \in Fresh : script.ans[x].fails \in 1..MAX_RETRIES})
    /\ state.failed = Cardinality({x \in Fresh : script.ans[x].fails > MAX_RETRIES})
    /\ state.currentOrderIndex = Len(state.orderIds)

\* C3 happens: a Done run whose one fresh identifier failed MAX_RETRIES times
\* and succeeded on its attempt MAX_RETRIES + 1
C3_Witness ==
  /\ SinglePageDone
  /\ \E x \in Fresh : /\ script.ans[x] = [fails |-> MAX_RETRIES, final |-> "ok"]
                      /\ attempts[x] = MAX_RETRIES + 1
  /\ Tally(state) = <<1, 1, 0, 0, 1>>

\* C4 (non-retryable block), under Spec: an ORDER_DATA_EXTRACTED response with
\* skipRetry for the identifier at the cursor, on its first attempt, adds one
\* to failed and to processed, advances the cursor by one, leaves retryCount,
\* success and retried as they were, starts no retry timer and issues no
\* navigation.
C4_SkipRetry ==
  [][( /\ last'.a = "Extracted" /\ last'.u = "skip"
       /\ state.isRunning /\ ~state.shouldStop
       /\ state.currentOrderIndex < Len(state.orderIds)
       /\ state.orderIds[state.currentOrderIndex + 1] = last'.id
       /\ state.retryCount[last'.id] = 0 )
     => /\ state'.failed = state.failed + 1
        /\ state'.processed = state.processed + 1
        /\ state'.currentOrderIndex = state.currentOrderIndex + 1
        /\ state'.retryCount = state.retryCount
        /\ state'.retried = state.retried /\ state'.success = state.success
        /\ RetryTimers(tasks') \subseteq RetryTimers(tasks)
        /\ \A t \in RetryTimers(tasks') : CopiesIn(t, tasks') <= CopiesIn(t, tasks)
        /\ \A i \in 1..Len(eff') : eff'[i].k \notin Outward]_vars

\* C4 happens: the first attempt of the first identifier was answered with skipRetry
C4_Witness ==
  /\ last.a = "Extracted" /\ last.u = "skip"
  /\ state.isRunning /\ state.currentOrderIndex = 1
  /\ state.failed = 1 /\ state.processed = 1
  /\ state.retryCount[last.id] = 0

\* the example scenario: pages 1..1, page 1 lists A, B, C = 1, 2, 3, none in
\* Accumulated Results; A succeeds, B is blocked (skipRetry), C fails
\* transiently MAX_RETRIES times and then succeeds
C5_Scenario ==
  /\ state.startPage = 1 /\ state.endPage = 1
  /\ state.orderIds = <<1, 2, 3>>
  /\ script.acc0 = <<>>
  /\ script.ans[1] = [fails |-> 0, final |-> "ok"]
  /\ script.ans[2] = [fails |-> 0, final |-> "skip"]
  /\ script.ans[3] = [fails |-> MAX_RETRIES, final |-> "ok"]

\* C5 (example scenario), under SpecScripted: when the example scenario has
\* run until nothing is pending, the run is Done with counters {processed:3,
\* success:2, failed:1, skipped:0, retried:1}.  Refuted: after B's skipRetry
\* answer the handler calls scheduleNextOrder, which is not defined, and the
\* run is left with nothing pending before C.
C5_Example ==
  (C5_Scenario /\ Quiescent) => (state.phase = "done" /\ Tally(state) = <<3, 2, 1, 0, 1>>)

\* C6 (per-item errors never abort the run), under SpecScripted: a running run
\* in which an item has failed (a retry was counted or an item was counted as
\* failed) always has a timer, a suspended handler, a tab load or a delegate
\* request pending.  Refuted by the skipRetry path.
C6_NeverStalls ==
  (state.isRunning /\ (state.failed > 0 \/ \E x \in Ids : state.retryCount[x] > 0)) => ~Quiescent

\* C7 (page exhaustion), under Spec: when ORDER_IDS_COLLECTED reports no
\* identifiers to a running run, then, with endPage as adjusted by the
\* response's actualMaxPages, if currentPage >= endPage the phase becomes
\* done, isRunning false and sessionState is removed, and otherwise
\* currentPage grows by one and the phase is collecting.
C7_PageExhaustion ==
  [][( /\ last'.a = "Collected" /\ last'.snap = <<>>
       /\ state.isRunning /\ ~state.shouldStop )
     => IF state.currentPage >= state'.endPage
        THEN /\ state'.phase = "done" /\ ~state'.isRunning
             /\ storage'.sessionState = <<>>
             /\ \A i \in 1..Len(eff') : eff'[i].k \notin Outward
        ELSE /\ state'.currentPage = state.currentPage + 1
             /\ state'.phase = "collecting" /\ state'.isRunning]_vars

\* C7 happens: page 2, the last page of a run that processed page 1, came back empty
C7_Witness ==
  /\ last.a = "Collected" /\ last.snap = <<>>
  /\ state.phase = "done" /\ ~state.isRunning
  /\ state.startPage = 1 /\ state.currentPage = 2 /\ state.endPage = 2
  /\ state.processed > 0
  /\ storage.sessionState = <<>>

C9_CheckpointLifetime ==
  (state.shouldStop /\ ~state.isRunning /\ ~state.isPaused) => storage.sessionState = <<>>

\* C10 (cancellation), under Spec: a step taken while shouldStop is set issues
\* no tabs.update, no tabs.reload and no COLLECT_ORDER_IDS or
\* EXTRACT_ORDER_DATA dispatch.  Refuted: processCurrentOrder sends
\* EXTRACT_ORDER_DATA after its sleep without looking at shouldStop.
C10_Cancellation ==
  [][state.shouldStop => \A i \in 1..Len(eff') : eff'[i].k \notin Outward]_vars

\* C11 (late responses), under Spec: an ORDER_IDS_COLLECTED or
\* ORDER_DATA_EXTRACTED response that arrives while the run is stopped
\* (shouldStop set, not running) changes nothing of `state` (counters, cursor,
\* work list, retryCount), nothing in chrome.storage (Accumulated Results,
\* checkpoint), issues nothing, starts no timer and arms no watchdog.
C11_LateResponse ==
  [][( /\ last'.a \in {"Extracted", "Collected"}
       /\ state.shouldStop /\ ~state.isRunning )
     => /\ state' = state
        /\ storage' = storage
        /\ eff' = <<>>
        /\ orderWatchdogTimer' \in {Null, orderWatchdogTimer}
        /\ \A t \in BagToSet(tasks') : CopiesIn(t, tasks') <= CopiesIn(t, tasks)]_vars

\* C11 happens: the answer for the item in flight arrived after Stop
C11_Witness ==
  /\ last.a = "Extracted"
  /\ state.shouldStop /\ ~state.isRunning
  /\ state.isProcessingOrder /\ state.currentOrderIndex < Len(state.orderIds)

\* C12 (one run at a time), under Spec: a Start or Resume command that arrives
\* while a run is running is answered 'Already running' and changes nothing,
\* and whenever chrome.tabs.create of a Start or Resume completes, the run
\* owns no tab yet, so at most one tab is opened per run.  Refuted: two Start
\* commands in a row both pass the isRunning test, which is set only after the
\* first await, and each opens a tab.
C12_OneRun ==
  [][/\ (last'.a \in {"Start", "Resume"} /\ state.isRunning)
          => /\ eff' = <<[k |-> "error", u |-> "Already running", id |-> Null]>>
             /\ state' = state /\ tasks' = tasks /\ storage' = storage
     /\ (last'.a \in {"StartCreated", "ResumeCreated"} /\ last'.id # Null)
          => state.currentTabId = Null]_vars

\* C13 (ordering), under SpecScripted: every navigation to an item page goes
\* to the identifier at the cursor of the current work list; while the work
\* list stays the same the cursor stays or moves forward by one; and every
\* COLLECT_ORDER_IDS request of the run is for a page greater than the page
\* of the request before it and within [startPage, endPage].
C13_Ordering ==
  [][/\ \A i \in 1..Len(eff') :
          (eff'[i].k = "nav" /\ eff'[i].u = "detail")
            => /\ state'.currentOrderIndex < Len(state'.orderIds)
               /\ eff'[i].id = state'.orderIds[state'.currentOrderIndex + 1]
     /\ (state'.orderIds = state.orderIds /\ last'.a \notin {"StartGot", "Collected", "CollectedSaved"})
          => state'.currentOrderIndex \in {state.currentOrderIndex, state.currentOrderIndex + 1}
     /\ \A i \in 1..Len(eff') :
          (eff'[i].k = "dispatch" /\ eff'[i].u = "collect")
            => /\ eff'[i].id > asked
               /\ state'.startPage <= eff'[i].id /\ eff'[i].id <= state'.endPage]_vars

\* C13 happens: page 2 was requested after page 1, and the step navigates to
\* the second identifier of page 2's list after the first
C13_Witness ==
  /\ asked = 2 /\ state.startPage = 1
  /\ state.phase = "processing" /\ state.currentOrderIndex = 1 /\ Len(state.orderIds) = 2
  /\ \E i \in 1..Len(eff) : eff[i].k = "nav" /\ eff[i].id = state.orderIds[2]

\* C14 (pause preserves resumable state), under Spec: a Pause command changes
\* nothing of `state` but isPaused and isRunning (work list, cursor, counters
\* and retryCount stay), disarms the watchdog, leaves Accumulated Results as
\* they are and, when the work list is not empty, leaves the checkpoint
\* present and equal to the state; a ResumePaused that follows it keeps
\* retryCount and, when the identifier at the cursor is still to be
\* processed, keeps cursor, work list and counters and navigates to that
\* identifier.
C14_PausePreserves ==
  [][/\ last'.a = "Pause"
          => /\ state' = [state EXCEPT !.isPaused = TRUE, !.isRunning = FALSE]
             /\ orderWatchdogTimer' = Null
             /\ Len(state.orderIds) > 0 => storage'.sessionState = <<SessionOf(state)>>
             /\ storage'.exportedOrders = storage.exportedOrders
     /\ (last'.a = "ResumePaused" /\ last.a = "Pause")
          => /\ state'.retryCount = state.retryCount
             /\ ~state'.isPaused
             /\ ( /\ state.currentOrderIndex < Len(state.orderIds)
                  /\ ~state.shouldStop
                  /\ ~Includes(state.existingOrderIds, state.orderIds[state.currentOrderIndex + 1]) )
                => /\ state'.isRunning
                   /\ state'.currentOrderIndex = state.currentOrderIndex
                   /\ state'.orderIds = state.orderIds
                   /\ Tally(state') = Tally(state)
                   /\ \E i \in 1..Len(eff') : /\ eff'[i].k = "nav"
                                             /\ eff'[i].id = state.orderIds[state.currentOrderIndex + 1]]_vars

\* C14 happens: a run paused after one failed attempt of identifier 1 was
\* resumed, with retryCount 1 and the cursor still on identifier 1
C14_Witness ==
  /\ last.a = "ResumePaused" /\ state.isRunning
  /\ state.orderIds = <<1>> /\ state.currentOrderIndex = 0 /\ state.retryCount[1] = 1
  /\ storage.sessionState = <<SessionOf(state)>>
  /\ \E i \in 1..Len(eff) : eff[i].k = "nav" /\ eff[i].id = 1

C16_PageRange ==
  [][/\ ( /\ last'.a = "Collected"
          /\ state.isRunning /\ ~state.shouldStop )
        => /\ state'.endPage = IF last'.id # Null /\ last'.id > 0 /\ last'.id < state.endPage
                               THEN last'.id ELSE state.endPage
           /\ ~state'.shouldStop
           /\ \A i \in 1..Len(eff') : eff'[i].k # "error"
           /\ last'.snap # <<>> => state'.isRunning
     /\ last'.a \notin {"StartGot", "ResumeGot", "Restart"}
          => state'.endPage <= state.endPage]_vars

\* C16 happens: the response for page 2 reported one page in all, endPage
\* went down to 1, and the run goes on with the list of the response
C16_Witness ==
  /\ last.a = "Collected" /\ last.id = 1 /\ last.snap # <<>>
  /\ state.currentPage = 2 /\ state.endPage = 1
  /\ state.isRunning /\ state.orderIds = last.snap

\* ---- C17 ----
\* The effects of a step that navigate the tab to an item's detail page.
ItemNavs(e) == {i \in 1..Len(e) : e[i].k = "nav" /\ e[i].u = "detail"}

C18_RunHistory ==
  [][LET before == storage.exportHistory
         after == storage'.exportHistory
     IN last'.a = "HistoryRead"
          => /\ Len(after) <= HISTORY_LIMIT
             /\ after # <<>>
             /\ after[1] = HistoryRecord(now', last'.u, last'.id)
             /\ \A i \in 1..Len(after), j \in 1..Len(after) : i < j => after[i].id > after[j].id
             /\ Tail(after) = IF Len(before) >= HISTORY_LIMIT
                              THEN SubSeq(before, 1, HISTORY_LIMIT - 1)
                              ELSE before]_vars

\* C18, what overlapping exports leave intact: the history never holds more than
\* 50 records, they are in reverse order of insertion, and once an export has
\* recorded itself the newest record made is at index 0.
C18_BoundedNewestFirst ==
  LET h == storage.exportHistory
  IN /\ Len(h) <= HISTORY_LIMIT
     /\ \A i \in 1..Len(h), j \in 1..Len(h) : i < j => h[i].id > h[j].id
     /\ last.a = "HistoryRead" => (h # <<>> /\ h[1].id = now)

\* A full history took a 51st record and lost only its oldest one.
C18_Witness ==
  /\ last.a = "HistoryRead"
  /\ Len(storage.exportHistory) = HISTORY_LIMIT
  /\ storage.exportHistory[1].id = HISTORY_LIMIT + 1
  /\ storage.exportHistory[HISTORY_LIMIT].id = 2

\* ---- C19 ----
\* the steps that handle a failure of the item `id` that is open to retry: a
\* response without data and without skipRetry for the item at the cursor of
\* a running run, or a rejected navigation or dispatch for the item
RetryableFailure(id) ==
  \/ /\ last'.a = "Extracted" /\ last'.u = "masked" /\ last'.id = id
     /\ state.isRunning
     /\ state.currentOrderIndex < Len(state.orderIds)
     /\ state.orderIds[state.currentOrderIndex + 1] = id
  \/ /\ last'.a = "NavRejected" /\ last'.id = id
  \/ /\ last'.a = "SendRejected" /\ last'.u # "coi" /\ last'.id = id

TimersFor(b, delay) == {t \in RetryTimers(b) : t.id = delay}

\* C19 (retry policy), under SpecFaults: a failed extraction or navigation of
\* an item below the retry ceiling adds one to its retryCount, leaves cursor
\* and counters alone and starts one timer of 3000 + 2000 * (the previous
\* retryCount) ms without navigating; at the ceiling it adds one to failed
\* and to processed, advances the cursor and starts no timer. When a retry
\* timer expires in a run that is running and not stopped, the step navigates
\* once, to the item at the cursor, and changes nothing in `state`.
C19_RetryPolicy ==
  [][/\ \A id \in Ids :
          RetryableFailure(id) =>
            LET n == state.retryCount[id] IN
            IF n < MAX_RETRIES
            THEN /\ state'.retryCount = [state.retryCount EXCEPT ![id] = n + 1]
                 /\ state'.currentOrderIndex = state.currentOrderIndex
                 /\ Tally(state') = Tally(state)
                 /\ \E t \in TimersFor(tasks', RetryDelay(n)) :
                      CopiesIn(t, tasks') = CopiesIn(t, tasks) + 1
                 /\ ItemNavs(eff') = {}
            ELSE /\ state'.retryCount = state.retryCount
                 /\ state'.failed = state.failed + 1
                 /\ state'.processed = state.processed + 1
                 /\ state'.currentOrderIndex = state.currentOrderIndex + 1
                 /\ state'.success = state.success
                 /\ \A t \in RetryTimers(tasks') : CopiesIn(t, tasks') = CopiesIn(t, tasks)
     /\ last'.a = "RetryFired"
          => /\ ( /\ state.isRunning /\ ~state.shouldStop
                  /\ state.currentOrderIndex < Len(state.orderIds)
                  /\ faults' = faults )
                  => Cardinality(ItemNavs(eff')) = 1
             /\ \A i \in ItemNavs(eff') :
                  /\ state.currentOrderIndex < Len(state.orderIds)
                  /\ eff'[i].id = state.orderIds[state.currentOrderIndex + 1]
             /\ state' = state]_vars

\* Two extractions of the item came back without data and the navigation of
\* the second retry was rejected: retryCount is at the ceiling, nothing is
\* counted as failed yet and the 7000 ms timer is pending.
C19_Witness ==
  /\ last.a = "NavRejected"
  /\ state.isRunning
  /\ state.retryCount[last.id] = MAX_RETRIES
  /\ state.failed = 0
  /\ TimersFor(tasks, 7000) # {}

\* ---- C20 ----
\* the pending tasks of the given kinds, counted with their copies
CountOf(b, kinds) ==
  LET S == {t \in BagToSet(b) : t.k \in kinds}
  IN BagCardinality([t \in S |-> b[t]])

\* EXTRACT_ORDER_DATA requests sent and not yet answered
OutstandingExtracts(b) == CountOf(b, {"req_extract"})

\* processCurrentOrder calls past their guards whose request is not yet answered
CyclesInProgress(b) == CountOf(b, {"sleep_pco", "req_extract", "c_sendfail"})

C20_LoadWhileProcessing ==
  [][(last'.a = "Settled" /\ state.isProcessingOrder /\ state.phase = "processing")
          => /\ CyclesInProgress(tasks') = CyclesInProgress(tasks)
             /\ \A i \in 1..Len(eff') : eff'[i].k # "dispatch"]_vars

\* ---- C21 ----
\* the response handled by the step belongs to a superseded request: no item
\* is in flight, or the item it was requested for is not the one at the cursor
Superseded ==
  \/ ~state.isProcessingOrder
  \/ state.currentOrderIndex >= Len(state.orderIds)
  \/ state.orderIds[state.currentOrderIndex + 1] # last'.id

\* C21 (duplicate or late responses), under Spec: an ORDER_DATA_EXTRACTED
\* response of a superseded request (no item in flight, or requested for
\* another identifier than the one at the cursor) changes no counter, no
\* retryCount, not the collected data and not the cursor.
C21_SupersededResponse ==
  [][(last'.a = "Extracted" /\ Superseded)
       => /\ Tally(state') = Tally(state)
          /\ state'.retryCount = state.retryCount
          /\ state'.collectedData = state.collectedData
          /\ state'.currentOrderIndex = state.currentOrderIndex]_vars

\* ---- C22 ----
\* C22 (watchdog arming), under SpecScripted: every step that navigates to an
\* item page, the retry navigations of retryCurrentOrder included, leaves the
\* watchdog armed for that item, and while the navigation of an item page is
\* outstanding in a running, unpaused run a watchdog timer is pending.
C22_WatchdogArmed ==
  [][/\ \A i \in ItemNavs(eff') : orderWatchdogTimer' = eff'[i].id
     /\ ( /\ state'.isRunning /\ ~state'.isPaused /\ ~state'.shouldStop
          /\ \E t \in BagToSet(tasks') : t.k = "load" /\ t.u = "detail" )
          => orderWatchdogTimer' # Null]_vars

\* ---- C23 ----
Reloads(e) == {i \in 1..Len(e) : e[i].k = "reload"}

Dispatches(e, id) == {i \in 1..Len(e) : e[i].k = "dispatch" /\ e[i].u = "extract" /\ e[i].id = id}

\* C23 (stall recovery), under SpecFaults: a watchdog that fires in a running
\* run and issues the reload sets isProcessingOrder to false and changes
\* nothing else of `state` (retryCount, counters, cursor); the settle timer of
\* a load-complete event of an item page that then finds the run processing
\* with no item in flight starts a cycle for the identifier at the cursor, and
\* that cycle dispatches EXTRACT_ORDER_DATA for this identifier.
C23_StallRecovery ==
  [][/\ (last'.a = "WatchdogFired" /\ Reloads(eff') # {})
          => /\ state.isRunning /\ ~state.shouldStop
             /\ state' = [state EXCEPT !.isProcessingOrder = FALSE]
             /\ \E t \in BagToSet(tasks') :
                  /\ t.k = "load" /\ t.id = state.currentTabId
                  /\ CopiesIn(t, tasks') = CopiesIn(t, tasks) + 1
     /\ ( /\ last'.a = "Settled" /\ last'.u = "detail"
          /\ state.isRunning /\ ~state.shouldStop /\ state.phase = "processing"
          /\ ~state.isProcessingOrder
          /\ state.currentOrderIndex < Len(state.orderIds) )
          => /\ state' = [state EXCEPT !.isProcessingOrder = TRUE]
             /\ \E t \in BagToSet(tasks') :
                  /\ t.k = "sleep_pco" /\ t.id = state.orderIds[state.currentOrderIndex + 1]
                  /\ CopiesIn(t, tasks') = CopiesIn(t, tasks) + 1
     /\ (last'.a = "Slept" /\ faults' = faults /\ state.currentTabId # Null)
          => /\ Dispatches(eff', last'.id) # {}
             /\ state' = state]_vars

\* The watchdog of item 1 fired before any answer and the tab is reloading:
\* nothing is counted, the cursor is where it was and no item is in flight.
C23_Witness ==
  /\ last.a = "WatchdogFired" /\ last.id = 1
  /\ Reloads(eff) # {}
  /\ state.isRunning /\ ~state.isProcessingOrder
  /\ state.currentOrderIndex = 0 /\ state.orderIds = <<1>>
  /\ Tally(state) = <<0, 0, 0, 0, 0>>
  /\ state.retryCount[1] = 0

\* ---- C24 ----
\* C24 (stall escalation), under SpecFaults: when the watchdog fired and its
\* reload was rejected, the step that handles the rejection counts the item
\* as a terminal failure: failed and processed grow by one, the cursor
\* advances, retryCount stays and no retry timer is started.
C24_StallEscalation ==
  [][(last'.a = "NavRejected" /\ last'.u = "wd")
       => /\ state'.failed = state.failed + 1
          /\ state'.processed = state.processed + 1
          /\ state'.currentOrderIndex = state.currentOrderIndex + 1
          /\ state'.retryCount = state.retryCount
          /\ \A t \in RetryTimers(tasks') : CopiesIn(t, tasks') = CopiesIn(t, tasks)]_vars

\* C24, what the code does instead: the rejected reload goes down the
\* ordinary failure path, which retries the item while its retryCount is
\* below the ceiling and counts it as failed only at the ceiling.
C24_EscalationRetries ==
  [][(last'.a = "NavRejected" /\ last'.u = "wd")
       => LET n == state.retryCount[last'.id] IN
          IF n < MAX_RETRIES
          THEN /\ state'.retryCount = [state.retryCount EXCEPT ![last'.id] = n + 1]
               /\ Tally(state') = Tally(state)
               /\ state'.currentOrderIndex = state.currentOrderIndex
               /\ TimersFor(tasks', RetryDelay(n)) # {}
          ELSE /\ state'.failed = state.failed + 1
               /\ state'.processed = state.processed + 1
               /\ state'.currentOrderIndex = state.currentOrderIndex + 1]_vars

\* The reload of item 1 was rejected on its first stall: nothing is counted
\* as failed, retryCount is 1 and the 3000 ms retry timer is pending.
C24_Witness ==
  /\ last.a = "NavRejected" /\ last.u = "wd" /\ last.id = 1
  /\ state.isRunning
  /\ state.failed = 0 /\ state.processed = 0 /\ state.currentOrderIndex = 0
  /\ state.retryCount[1] = 1
  /\ TimersFor(tasks, RetryDelay(0)) # {}

\* ---- C25 ----
\* a response with data for the item has been handled in the run that `state`
\* holds
ResponseHandled(id) == Includes(state.collectedData, id)

\* C25 (watchdog disarming), under SpecStall: no watchdog timer is pending
\* right after an ORDER_DATA_EXTRACTED response is handled, whatever it says
\* and whether or not the run is running, nor right after Pause or Stop; and
\* the watchdog never fires for an item whose response has been handled.
C25_WatchdogDisarmed ==
  [][/\ last'.a \in {"Extracted", "Pause", "Stop"} => orderWatchdogTimer' = Null
     /\ last'.a = "WatchdogFired" => ~ResponseHandled(last'.id)]_vars

\* C25, the part that holds: the handlers of a response, of Pause and of Stop
\* leave no watchdog pending.
C25_DisarmedAfterHandlers ==
  [][last'.a \in {"Extracted", "Pause", "Stop"} => orderWatchdogTimer' = Null]_vars

\* ---- C26 ----
\* every counter of t is at least the counter of s
TallyLeq(s, t) == \A i \in 1..5 : Tally(s)[i] <= Tally(t)[i]

\* C26 (counter consistency), under Spec: after every step that leaves
\* nothing pending (no timer, no suspended handler, no request) processed
\* equals success + failed, and no step other than the start of a new run or
\* the end of the worker lowers a counter, the steps of Pause, RESUME_PAUSED
\* and of a resume from the checkpoint included.
C26_Counters ==
  [][/\ (tasks' = EmptyBag /\ orderWatchdogTimer' = Null)
          => state'.processed = state'.success + state'.failed
     /\ last'.a \notin {"StartGot", "Restart"} => TallyLeq(state, state')]_vars

\* C26, the part that holds: no handler other than the one that loads the
\* checkpoint, starts a run or ends the worker lowers a counter.
C26_HandlersOnlyCount ==
  [][last'.a \notin {"StartGot", "Restart", "ResumeGot"} => TallyLeq(state, state')]_vars

\* ---- C27 ----
\* C27 (cursor bounds), under Spec: in every reachable state
\* 0 <= currentOrderIndex <= orderIds.length.
C27_CursorBounds ==
  /\ state.currentOrderIndex >= 0
  /\ state.currentOrderIndex <= Len(state.orderIds)

\* ---- C28 ----
\* the steps of the handlers of START_SCRAPING, RESUME_SCRAPING and
\* RESUME_PAUSED, and the end of the worker
NewRunSteps == {"Start", "StartGot", "StartRemoved", "StartCreated",
                "Resume", "ResumeGot", "ResumeCreated", "ResumeFired", "ResumePaused", "Restart"}

\* the effects of a step that drive the tab or the delegate
OutwardEffects(e) == {i \in 1..Len(e) : e[i].k \in Outward}

\* C28 (Done is quiescent), under SpecFaults: a step taken while the phase is
\* 'done', other than a step of the handlers of Start, Resume and
\* RESUME_PAUSED, navigates or reloads no tab, dispatches neither
\* COLLECT_ORDER_IDS nor EXTRACT_ORDER_DATA and changes no counter.
C28_DoneQuiescent ==
  [][(state.phase = "done" /\ last'.a \notin NewRunSteps)
        => (OutwardEffects(eff') = {} /\ Tally(state') = Tally(state))]_vars

\* C28, the part that holds: once the phase is 'done' no timer of the run
\* (settle, next item, retry, next page, watchdog) acts.
C28_TimersGuarded ==
  [][(state.phase = "done"
        /\ last'.a \in {"Settled", "NextOrderFired", "RetryFired", "PageNav", "WatchdogFired"})
        => (OutwardEffects(eff') = {} /\ state' = state)]_vars

\* ---- C29 ----
\* the run does not expect a page load: idle, done or paused
NotExpecting(s) == ~s.isRunning \/ s.isPaused \/ s.phase \in {"idle", "done"}

\* the settle timer of a load-complete event of a page of kind url finds the
\* run running, not stopped, and in the phase that expects that page
Expected(s, url) ==
  /\ s.isRunning /\ ~s.shouldStop
  /\ \/ (s.phase = "collecting" /\ url = "list")
     \/ (s.phase = "processing" /\ url = "detail")

\* what a load-complete event can set going: settle timers, item cycles,
\* requests to the delegate
EventWork(b) == CountOf(b, {"t_settle", "sleep_pco", "req_collect", "req_extract", "c_sendfail"})

\* C29 (load-complete filtering), under Spec: a load-complete event changes
\* nothing of `state` and dispatches nothing by itself, and starts the settle
\* timer only if it is for the owned tab while the run is running (an event
\* of another tab, or one that meets the worker not running, starts nothing);
\* the settle timer dispatches COLLECT_ORDER_IDS or starts an item cycle only
\* if it finds the run running and not stopped, in phase 'collecting' for a
\* list page or 'processing' for a detail page respectively; a settle timer
\* that finds the worker idle, done or paused changes no state, dispatches
\* nothing and starts nothing.
C29_LoadFiltering ==
  [][/\ last'.a = "TabLoaded" =>
          /\ state' = state /\ eff' = <<>>
          /\ EventWork(tasks') <= EventWork(tasks) + 1
          /\ (last'.id # state.currentTabId \/ ~state.isRunning)
                => EventWork(tasks') = EventWork(tasks)
     /\ last'.a = "Settled" =>
          /\ OutwardEffects(eff') # {}
                => /\ Expected(state, last'.u) /\ state.phase = "collecting"
                   /\ \A i \in OutwardEffects(eff') : eff'[i].k = "dispatch" /\ eff'[i].u = "collect"
          /\ CountOf(tasks', {"sleep_pco"}) > CountOf(tasks, {"sleep_pco"})
                => Expected(state, last'.u) /\ state.phase = "processing"
          /\ (~Expected(state, last'.u) \/ NotExpecting(state))
                => /\ state' = state /\ eff' = <<>>
                   /\ EventWork(tasks') = EventWork(tasks) - 1]_vars

\* A load-complete event of a tab the worker no longer owns arrived while a
\* run was running, and was ignored.
C29_Witness ==
  /\ last.a = "TabLoaded"
  /\ state.isRunning /\ state.currentTabId # Null
  /\ last.id # Null /\ last.id # state.currentTabId
  /\ CountOf(tasks, {"t_settle"}) = 0

\* ---- C30 ----
\* the checkpoint writes and clears among the effects of a step
CheckpointWrites(e) == {i \in 1..Len(e) : e[i].k \in {"saveSession", "clearSession"}}

\* the status broadcasts among the effects of a step
Broadcasts(e) == {i \in 1..Len(e) : e[i].k = "broadcast"}

\* the step changes the cursor, a counter or the phase
Progressed(s, t) ==
  \/ s.currentOrderIndex # t.currentOrderIndex
  \/ Tally(s) # Tally(t)
  \/ s.phase # t.phase

\* C30 (persist before broadcast), under SpecScripted: a handler run that
\* advances the cursor, changes a counter or changes the phase, and that
\* issues both a status broadcast and a checkpoint write or clear, issues the
\* write or clear before the broadcast.
C30_PersistFirst ==
  [][Progressed(state, state')
        => \A i \in Broadcasts(eff'), j \in CheckpointWrites(eff') : j < i]_vars

\* C30, the part that holds: the handlers of a response and of a failure
\* (handleOrderDataExtracted, handleOrderFailed) and the end of the page range
\* found by handleOrderIdsCollected issue no broadcast before their
\* checkpoint write or clear.
C30_ResponseHandlersPersistFirst ==
  [][(\/ last'.a \in {"Extracted", "ScriptedExtracted", "ExtractedSaved", "ExtractedSkip",
                       "FailedSaved", "Collected", "CollectedDone"}
      \/ (last'.a \in {"OrdersRead", "OrdersWritten"} /\ last'.u = "hode"))
        => \A i \in Broadcasts(eff'), j \in CheckpointWrites(eff') : j < i]_vars

\* ---- C31 ----
\* the identifiers that are keys of retryCount
Keys(s) == {i \in Ids : s.retryCount[i] > 0}

\* the steps that handle a failed attempt: a response, a rejected navigation
\* or reload, a rejected or impossible sendMessage
FailureSteps == {"Extracted", "NavRejected", "SendRejected", "Slept"}

\* C31 (retry map), under SpecResume: an identifier becomes a key of
\* retryCount only in a step that handles a failed attempt for it (or when
\* the map is restored from the checkpoint), every stored count is in 1..3,
\* and a non-empty retryCount becomes empty only when a fresh Start builds the
\* state or the worker ends, never in a step of Resume, Pause, RESUME_PAUSED or
\* of a page transition.
C31_RetryMap ==
  [][/\ \A i \in Keys(state') \ Keys(state) :
          last'.a = "ResumeGot" \/ (last'.a \in FailureSteps /\ last'.id = i)
     /\ \A i \in Ids : state'.retryCount[i] \in 0..MAX_RETRIES
     /\ (Keys(state) # {} /\ Keys(state') = {}) => last'.a \in {"StartGot", "Restart"}]_vars

\* C31, the part that holds: keys appear only with a failed attempt or a
\* restored checkpoint, counts stay in 1..3, and no step other than the
\* restoring of the checkpoint, a fresh Start or the end of the worker lowers
\* a count.
C31_CountsOnlyGrow ==
  [][/\ \A i \in Keys(state') \ Keys(state) :
          last'.a = "ResumeGot" \/ (last'.a \in FailureSteps /\ last'.id = i)
     /\ \A i \in Ids : state'.retryCount[i] \in 0..MAX_RETRIES
     /\ \A i \in Ids : state'.retryCount[i] < state.retryCount[i]
          => last'.a \in {"StartGot", "Restart", "ResumeGot"}]_vars

\* ---- C32 ----
\* responses with data whose save handleOrderDataExtracted is awaiting
\* (success is counted before the save, the cursor advances after it)
SavesPending(b) == Cardinality({t \in BagToSet(b) : t.k \in {"c_sts_get", "c_sts_set"} /\ t.u = "hode"})

\* the identifiers the run has accounted for and moved its cursor past
Accounted(s, b) == s.success + s.failed + s.skipped - SavesPending(b)

\* the navigations and reloads to an item page among the effects of a step
ItemLoads(e) == {i \in 1..Len(e) : e[i].k \in {"nav", "reload"} /\ e[i].u = "detail"}

\* a navigation to an item page whose response is still to come
CyclePending(b) == CountOf(b, {"load", "t_settle", "sleep_pco", "req_extract"})

\* the step leaves the page: the run is done or the next page is asked for
PageLeft(s, t) == (t.phase = "done" /\ s.phase # "done") \/ (s.isRunning /\ t.currentPage > s.currentPage)

\* C32 (termination with bounded retries), under SpecTransient: every run
\* reaches Done; a navigation or reload to an identifier of the run's first
\* page (the pages of the model list the same identifiers again) is issued
\* only when no earlier one is unanswered and fewer than 4 responses for it
\* have been handled, so each identifier is navigated to at most 4 times; success + failed + skipped (less the one response whose save is
\* awaited) grows by exactly the advance of the cursor and a page is left
\* only with the cursor at the end of its list, so
\* at Done the sum is the number of identifiers collected over all pages (for
\* a one-page run: the length of its list).
C32_Termination ==
  /\ (state.isRunning ~> state.phase = "done")
  /\ [][/\ \A i \in ItemLoads(eff') :
             state'.currentPage = state'.startPage
               => (CyclePending(tasks) = 0 /\ attempts[eff'[i].id] <= MAX_RETRIES)
        /\ (last'.a # "StartGot" /\ (state'.orderIds = state.orderIds \/ last'.a = "CollectedSaved"))
             => Accounted(state', tasks') - Accounted(state, tasks) = state'.currentOrderIndex - CursorBefore
        /\ (last'.a # "StartGot" /\ state'.orderIds # state.orderIds)
             => Accounted(state', tasks') = Accounted(state, tasks)
        /\ PageLeft(state, state') => state.currentOrderIndex = Len(state.orderIds)
        /\ (SinglePageDone' /\ state'.orderIds # <<>>)
             => Accounted(state', tasks') = Len(state'.orderIds)]_vars

\* A one-page run of three identifiers is Done: the first succeeded at once,
\* the second on its 4th navigation, the third failed all 4.
C32_Witness ==
  /\ SinglePageDone /\ state.orderIds = <<1, 2, 3>> /\ script.acc0 = <<>>
  /\ attempts = <<1, 4, 4>>
  /\ script.ans[2].fails = MAX_RETRIES /\ script.ans[3].fails = MAX_RETRIES + 1
  /\ Tally(state) = <<3, 2, 1, 0, 1>>
  /\ Quiescent

\* ---- C33 ----
\* the run is running and all that is pending are EXTRACT_ORDER_DATA requests
\* for the identifier at the cursor: only the delegate or the watchdog can
\* move it
WaitingOnDelegate ==
  /\ state.isRunning /\ ~state.shouldStop /\ state.phase = "processing"
  /\ state.currentOrderIndex < Len(state.orderIds)
  /\ tasks # EmptyBag
  /\ \A t \in BagToSet(tasks) :
       t.k = "req_extract" /\ t.id = state.orderIds[state.currentOrderIndex + 1]

\* C33 (repeated stalls), under SpecStall: once the watchdog has fired (the
\* one stall of a behaviour is used up), a running run that waits on the
\* delegate alone for the identifier at the cursor has a watchdog pending.
C33_RepeatedStalls ==
  (faults = 0 /\ WaitingOnDelegate) => orderWatchdogTimer # Null

\* ---- C34 ----
\* the state handleStart builds (lines 161-184) before the run's first page is
\* collected: nothing of this run is scheduled but the tab's load, its settle
\* timer and COLLECT_ORDER_IDS
FreshRun(s) ==
  /\ s.isRunning /\ ~s.shouldStop /\ ~s.isPaused
  /\ s.phase = "collecting" /\ s.orderIds = <<>> /\ s.currentOrderIndex = 0
  /\ s.currentPage = s.startPage
  /\ Tally(s) = <<0, 0, 0, 0, 0>>

\* timers and continuations that only processing of a collected list creates
LeftoverSteps == {"NextOrderFired", "RetryFired", "PageNav", "Slept", "WatchdogFired",
                  "SkipSaved", "OrdersRead", "OrdersWritten", "ExtractedSaved",
                  "ExtractedSkip", "FailedSaved", "NavRejected", "SendRejected"}

NavsOf(e) == {i \in 1..Len(e) : e[i].k \in {"nav", "reload"}}

\* C34 (run isolation), under Spec: a timer or suspended handler that fires in
\* a run which has not yet collected its first page (so the timer is a
\* leftover of an earlier run) changes neither phase, currentPage, cursor nor
\* counters of that run and navigates nowhere.
C34_RunIsolation ==
  [][(FreshRun(state) /\ last'.a \in LeftoverSteps)
       => /\ state'.phase = state.phase
          /\ state'.currentPage = state.currentPage
          /\ state'.currentOrderIndex = state.currentOrderIndex
          /\ Tally(state') = Tally(state)
          /\ NavsOf(eff') = {}]_vars

\* ---- C35 ----
\* the run in memory is the one that wrote the stored checkpoint, and it has
\* pages left after the one it is on
CheckpointMidRange ==
  /\ storage.sessionState # <<>>
  /\ storage.sessionState[1].orderIds = state.orderIds
  /\ state.orderIds # <<>>
  /\ state.currentPage # Null /\ state.endPage # Null
  /\ state.currentPage < state.endPage

\* C35 (Resume keeps the page range), under Spec: when handleResume rebuilds
\* the state from the checkpoint of a run that has pages left, the resumed run
\* is on the same page with the same end page, so that processNextOrder goes on
\* to the next page once the list is exhausted.
C35_ResumeKeepsRange ==
  [][(last'.a = "ResumeGot" /\ state'.isRunning /\ CheckpointMidRange)
       => /\ state'.currentPage = state.currentPage
          /\ state'.endPage = state.endPage
          /\ state'.currentPage < state'.endPage]_vars

\* ---- C36 ----
\* C36 (Pause never skips work), under SpecStall: while the list of the
\* current page is still to be collected (phase 'collecting'), neither PAUSE
\* nor RESUME_PAUSED moves the run to another page or ends it.
C36_PauseKeepsPage ==
  [][(last'.a \in {"Pause", "ResumePaused"} /\ state.phase = "collecting")
       => /\ state'.currentPage = state.currentPage
          /\ state'.phase = "collecting"
          /\ state'.orderIds = state.orderIds]_vars

\* ---- C37 ----
\* C37 (in-flight guard across pause), under SpecStall: when RESUME_PAUSED is
\* handled with an EXTRACT_ORDER_DATA request from before the pause still
\* outstanding and navigates to the item page again, isProcessingOrder is
\* false afterwards, so that the load-complete event of that page starts a
\* cycle (the listener starts none while the flag is true).
C37_GuardAcrossPause ==
  [][(/\ last'.a = "ResumePaused" /\ state.isPaused
      /\ OutstandingExtracts(tasks) > 0
      /\ ItemNavs(eff') # {})
       => ~state'.isProcessingOrder]_vars

\* ---- C38 ----
\* no two records of the sequence have the same order_id
NoDuplicates(seq) == \A i, j \in 1..Len(seq) : seq[i] = seq[j] => i = j

\* C38 (Accumulated Results integrity), under SpecFaults: after every step
\* exportedOrders holds no order_id twice and still holds every record it
\* held before the step, and when the run is done with nothing pending every
\* record still in collectedData is in exportedOrders.
C38_ResultsIntegrity ==
  [][/\ NoDuplicates(storage'.exportedOrders)
     /\ \A i \in 1..Len(storage.exportedOrders) :
          Includes(storage'.exportedOrders, storage.exportedOrders[i])
     /\ (state'.phase = "done" /\ ~state'.isRunning /\ tasks' = EmptyBag)
          => \A i \in 1..Len(state'.collectedData) :
               Includes(storage'.exportedOrders, state'.collectedData[i])]_vars

\* C38, the parts that hold: no step of the worker removes a record from
\* exportedOrders, and a run that is done with nothing pending has stored
\* every record it extracted.
C38_NeverLoses ==
  [][/\ \A i \in 1..Len(storage.exportedOrders) :
          Includes(storage'.exportedOrders, storage.exportedOrders[i])
     /\ (state'.phase = "done" /\ ~state'.isRunning /\ tasks' = EmptyBag)
          => \A i \in 1..Len(state'.collectedData) :
               Includes(storage'.exportedOrders, state'.collectedData[i])]_vars

\* ---- C39 ----
\* every pending read of handleResume found no checkpoint, or one without
\* identifiers
NoCheckpointRead ==
  \A t \in Pending("c_resume_get") : t.sess = <<>> \/ Len(t.sess[1].orderIds) = 0

\* C39 (Resume without a checkpoint), under Spec: when handleResume resumes
\* from a read that found no sessionState (or one with no orderIds), the step
\* returns the error 'No previous session found' and nothing else: the state,
\* the storage and the pending work are as before but for the finished read,
\* so no tab is opened and a run that was not running is not running.
C39_ResumeWithoutCheckpoint ==
  [][(last'.a = "ResumeGot" /\ NoCheckpointRead)
       => /\ eff' = <<[k |-> "error", u |-> "No previous session found", id |-> Null]>>
          /\ state' = state
          /\ storage' = storage
          /\ nextTab' = nextTab
          /\ orderWatchdogTimer' = orderWatchdogTimer
          /\ \E t \in Pending("c_resume_get") : tasks' = tasks (-) SetToBag({t})]_vars

C39_Witness ==
  /\ last.a = "ResumeGot"
  /\ eff = <<[k |-> "error", u |-> "No previous session found", id |-> Null]>>
  /\ storage.sessionState = <<>>
  /\ ~state.isRunning /\ state.currentTabId = Null
  /\ tasks = EmptyBag

====
